---- MODULE Spec2Model ----
(***************************************************************************)
(* Model of the peer-to-peer signaling subsystem of letspanic:             *)
(*   - the voice room mesh hook   (src/src/hooks/useVoiceRoom.ts)          *)
(*   - the 1:1 call signaling hook (src/unnamed/part_004, useCallSystem)   *)
(*                                                                         *)
(* A hook instance is a "session".  Every `await` of a handler is a yield  *)
(* point: the handler is split into the step that runs up to the await and *)
(* one step per continuation; the pending continuations of a session are   *)
(* kept in the bag tasks[s].  Following the WebRTC specification, a        *)
(* promise of a peer connection that is closed while the operation is      *)
(* pending never settles, so closing a connection drops the continuations  *)
(* that wait on it.                                                        *)
(***************************************************************************)
EXTENDS Integers, Sequences, FiniteSets, Bags, TLC

\* ------------------------------------------------------------------ bounds
MaxJoins      == 1   \* local streams a session acquires (open session)
MaxTimers     == 1   \* reconnect timers a session schedules (open session)
MaxTasks      == 1   \* pending negotiation handlers of a session (open session)
MaxCand       == 2   \* ICE candidates received per peer and connection
MaxLocalCand  == 1   \* local ICE candidates a connection emits (open session)
RcTimers      == 4   \* reconnect timers a session schedules (reconnecting session)
RcCand        == 1   \* ICE candidates received per peer and connection (reconnecting session)
MaxMeshJoins  == 1   \* local streams a session acquires (mesh)
MaxMeshTimers == 1   \* reconnect timers a session schedules (mesh)
MaxSignals    == 2   \* call events in flight or about to be sent
MaxCallTasks  == 2   \* pending continuations per call system
MaxCalls      == 2   \* calls started by the two users together
MaxLogCalls   == 1   \* calls started by the two users together (timed calls)
MaxElapsed    == 130000   \* milliseconds that pass during calls (timed calls)
DevTimers     == 1   \* timeouts a session schedules (device switch)
DevCand       == 1   \* ICE candidates received per peer and connection (device switch)
FrameTasks    == 1   \* negotiations pending at a time (two remote peers)
FrameCand     == 1   \* ICE candidates received per peer and connection (two remote peers)

\* --------------------------------------------------------------- constants
MaxReconnect  == 3      \* useVoiceRoom.ts:274
BackoffBase   == 1500   \* useVoiceRoom.ts:279
RejoinDelay   == 100    \* useVoiceRoom.ts:400
Epoch         == 1000   \* Date.now() when the hooks mount

Users    == {"A", "B", "C"}
Rooms    == {"r1"}
Sessions == {1, 2, 3}
\* the user a hook instance was mounted for (two tabs of user A, one of B)
userId(s) == IF s = 2 THEN "B" ELSE "A"

NoUser == "none"

Msg(ev, snd, tgt, c) == [event |-> ev, sender |-> snd, target |-> tgt, candidate |-> c]

VARIABLES
  mounted,            \* the hook instances that exist in this run
  localStreamRef,     \* [s] id of the local stream, 0 = null
  streams,            \* [s] sequence: streams[s][i] = TRUE iff the tracks of stream i are live
  inAudioRoom,        \* [s] React state inAudioRoom
  participants,       \* [s] user ids of the Participant list
  peerConnections,    \* [s][p] id of the registered connection, 0 = no entry
  conns,              \* [s] the open native connections, id -> record
  iceCandidatesQueue, \* [s][p] queued candidates, << >> = no entry
  channel,            \* [s] the channel of channelRef: [room, stream, st]
  reconnectAttempts,  \* [s][room]
  reconnectTimer,     \* [s][room] timer handle, 0 = none
  timers,             \* [s] pending timeouts: set of [id, room, delay]
  nextTimer,          \* [s] next timer handle
  tasks,              \* [s] bag of pending continuations
  inbox,              \* [s] bag of broadcast events forwarded to the session's channel
  out,                \* events sent by the last step
  \* history variables
  offered,            \* pairs <<from, to>> of users: from sent an offer targeted at to
  queuedLog,          \* [s][p] candidates queued for p since p's entry was last removed
  requested,          \* [s] peers whose join-request s handled and whose connection is still registered
  leftRoom,           \* [s] leaveRoom was invoked and handleJoin has not been invoked since
  closedSinceSub,     \* [s][room] CLOSED signals handled since the last SUBSCRIBED
  lastRecv,           \* whether the last step handled an event, one the session's own user
                      \* sent (echo), one targeted at another user (foreign), and which
  toast               \* the notices the last step of a session showed to the user

voiceVars == << mounted, localStreamRef, streams, inAudioRoom, participants,
                peerConnections, conns, iceCandidatesQueue, channel,
                reconnectAttempts, reconnectTimer, timers, nextTimer, tasks,
                inbox, out, offered, queuedLog, requested, leftRoom, closedSinceSub,
                lastRecv, toast >>

\* useCallSystem, one instance per user
VARIABLES
  callState,          \* [u] React state callState, as last committed
  callData,           \* [u] React state callData, as last committed; NoCall = null
  callStateRef,       \* [u] callStateRef.current
  callDataRef,        \* [u] callDataRef.current
  callTasks,          \* [u] bag of pending continuations of the hook's async functions
  signals,            \* [u] bag of events broadcast to calls:u and not yet handled
  lastSignal,         \* the event the last step handed to a handler of u, or NoSignal
  startTimeRef,       \* [u] startTimeRef.current, 0 = null
  now,                \* Date.now(), in milliseconds
  nextUUID,           \* how many identifiers crypto.randomUUID() has returned, plus one
  logged,             \* the row the last step inserted into messages, or NoLog
  connectedAt,        \* [u] history: Date.now() when callState last became connected
  inboxChannel,       \* [u] channels calls:<u> the subscription effect has created and removed
  ringIntervalRef     \* [u] TRUE iff ringIntervalRef.current holds a running interval

callVars == << callState, callData, callStateRef, callDataRef, callTasks, signals,
               lastSignal, startTimeRef, now, nextUUID, logged, connectedAt,
               inboxChannel, ringIntervalRef >>

\* --------------------------------------------------------------- useVideoCall
VARIABLES
  video,              \* [u] the hook of u: its state, its refs, the connections it created
  videoTasks,         \* [u] bag of its pending continuations and timeouts
  broadcasts          \* [u] the video-call-<conversation> events in flight to u, in order

videoVars == << video, videoTasks, broadcasts >>

vars == << voiceVars, callVars, videoVars >>

NoRecv    == [handled |-> FALSE, echo |-> FALSE, foreign |-> FALSE,
              session |-> 0, event |-> "none", sender |-> "none"]
\* existing: the users that were subscribed to the room when the server completed
\* the join of this channel, and have kept that subscription since
NoChannel == [room |-> "none", stream |-> 0, st |-> "none", existing |-> {}]

\* ----------------------------------------------------------------- helpers
RECURSIVE IsSubseq(_, _)
IsSubseq(a, b) ==
  IF a = << >> THEN TRUE
  ELSE IF b = << >> THEN FALSE
  ELSE IF Head(a) = Head(b) THEN IsSubseq(Tail(a), Tail(b))
  ELSE IsSubseq(a, Tail(b))

Min(S) == CHOOSE x \in S : \A y \in S : x <= y

Restrict(f, D) == [x \in D |-> f[x]]

AddTask(b, t) == b (+) SetToBag({t})
DelTask(b, t) == b (-) SetToBag({t})
\* the continuations that do not wait on one of the connections in ids
KeepTasks(b, ids) == Restrict(b, {t \in DOMAIN b : t.pc \notin ids})

Task(k, at, p, id, r, rest, strm) ==
  [kind |-> k, at |-> at, peer |-> p, pc |-> id, room |-> r, rest |-> rest, stream |-> strm]


\* ------------------------------------------------- peer connection registry
\* a new RTCPeerConnection to p: applied = the candidates passed to
\* pc.addIceCandidate, in order; failed = those of them it rejected;
\* state = pc.connectionState, "new" standing for new, connecting and connected
NewConn(p) ==
  [peer |-> p, remote |-> FALSE, local |-> FALSE, applied |-> << >>, failed |-> << >>, ncand |-> 0,
   state |-> "new"]

NewId(s) == Min({i \in 1..(Cardinality(DOMAIN conns[s]) + 1) : i \notin DOMAIN conns[s]})

createPeerConnection_AlwaysNew(s, p) ==
  [id    |-> NewId(s),
   conns |-> conns[s] @@ (NewId(s) :> NewConn(p)),
   reg   |-> [peerConnections[s] EXCEPT ![p] = NewId(s)]]

\* createPeerConnection(targetUserId, stream): the connection it returns and
\* the registry and native connections it leaves behind
createPeerConnection(s, p) ==
  IF peerConnections[s][p] # 0
  THEN [id |-> peerConnections[s][p], conns |-> conns[s], reg |-> peerConnections[s]]
  ELSE [id    |-> NewId(s),
        conns |-> conns[s] @@ (NewId(s) :> NewConn(p)),
        reg   |-> [peerConnections[s] EXCEPT ![p] = NewId(s)]]

\* a candidate that pc.addIceCandidate rejects (malformed, or naming a media
\* section the description does not have)
Throws(c) == c = 2

\* `try { await pc.addIceCandidate(candidate) } catch (e) { console.error(e) }`:
\* operations of one connection are chained, so the candidates take effect in
\* the order of the calls; a rejection is logged and nothing else
Apply(cs, id, c) ==
  [cs EXCEPT ![id].applied = Append(@, c),
             ![id].failed  = IF Throws(c) THEN Append(@, c) ELSE @]

\* addIceCandidate(senderId, candidate)
addIceCandidate(s, p, c) ==
  LET id == peerConnections[s][p] IN
  IF id # 0 /\ conns[s][id].remote
  THEN [conns |-> Apply(conns[s], id, c), queue |-> iceCandidatesQueue[s], queued |-> FALSE]
  ELSE [conns |-> conns[s],
        queue |-> [iceCandidatesQueue[s] EXCEPT ![p] = Append(@, c)],
        queued |-> TRUE]

processIceQueue_NoLoop(s, p, cs) ==
  LET id == peerConnections[s][p] IN
  IF id # 0 /\ cs[id].remote
  THEN [conns |-> cs, queue |-> [iceCandidatesQueue[s] EXCEPT ![p] = << >>],
        done |-> TRUE, rest |-> << >>]
  ELSE [conns |-> cs, queue |-> iceCandidatesQueue[s], done |-> TRUE, rest |-> << >>]

\* processIceQueue(senderId) up to its first await, on the connections cs:
\* done = it returned without awaiting, rest = the candidates still to apply
processIceQueue(s, p, cs) ==
  LET id         == peerConnections[s][p]
      candidates == iceCandidatesQueue[s][p]
  IN IF id # 0 /\ cs[id].remote
     THEN IF candidates = << >>
          THEN [conns |-> cs, queue |-> [iceCandidatesQueue[s] EXCEPT ![p] = << >>],
                done |-> TRUE, rest |-> << >>]
          ELSE [conns |-> Apply(cs, id, Head(candidates)), queue |-> iceCandidatesQueue[s],
                done |-> FALSE, rest |-> Tail(candidates)]
     ELSE [conns |-> cs, queue |-> iceCandidatesQueue[s], done |-> TRUE, rest |-> << >>]

\* ----------------------------------------------------------------- transport
\* sessions whose channel on room r is joined at the server (broadcast self: false)
Recipients(s, r) ==
  {t \in mounted \ {s} : channel[t].room = r /\ channel[t].st \in {"joined", "subscribed"}}

\* the step of session s sent out' on room r and leaves base as its own inbox
Transport(s, r, base) ==
  inbox' = [t \in Sessions |->
              IF t = s THEN base
              ELSE IF t \in Recipients(s, r) THEN inbox[t] (+) SetToBag(out')
              ELSE inbox[t]]

Offers(ms) == {<<m.sender, m.target>> : m \in {x \in ms : x.event = "offer"}}

\* ------------------------------------------------------------------ cleanup
TimerIds(s) == {reconnectTimer[s][r] : r \in Rooms}

\* the channel of s becomes new: s is an existing member to nobody any more
Rechannel(s, new) ==
  [x \in Sessions |-> IF x = s THEN new
                      ELSE [channel[x] EXCEPT !.existing = @ \ {userId(s)}]]

\* the timeouts of s that cleanup() does not clear: those whose handle is not
\* in reconnectTimer.current; stale records that a teardown ran while they
\* were pending
Uncleared(s) == {[tm EXCEPT !.stale = TRUE] : tm \in {x \in timers[s] : x.id \notin TimerIds(s)}}

cleanup_KeepsParticipants(s, pend) ==
  /\ timers' = [timers EXCEPT ![s] = pend]
  /\ reconnectTimer' = [reconnectTimer EXCEPT ![s] = [r \in Rooms |-> 0]]
  /\ conns' = [conns EXCEPT ![s] = Restrict(@, DOMAIN @ \ {peerConnections[s][p] : p \in Users})]
  /\ tasks' = [tasks EXCEPT ![s] = KeepTasks(@, {peerConnections[s][p] : p \in Users} \ {0})]
  /\ peerConnections' = [peerConnections EXCEPT ![s] = [p \in Users |-> 0]]
  /\ iceCandidatesQueue' = [iceCandidatesQueue EXCEPT ![s] = [p \in Users |-> << >>]]
  /\ queuedLog' = [queuedLog EXCEPT ![s] = [p \in Users |-> << >>]]
  /\ requested' = [requested EXCEPT ![s] = {}]
  /\ streams' = IF localStreamRef[s] # 0
                THEN [streams EXCEPT ![s][localStreamRef[s]] = FALSE]
                ELSE streams
  /\ localStreamRef' = [localStreamRef EXCEPT ![s] = 0]
  /\ UNCHANGED participants
  /\ channel' = Rechannel(s, NoChannel)
  /\ inAudioRoom' = [inAudioRoom EXCEPT ![s] = FALSE]

\* cleanup(), pend being the timeouts of s pending after the handler that runs
\* it: everything but the events sent and the inbox
cleanup(s, pend) ==
  /\ timers' = [timers EXCEPT ![s] = pend]
  /\ reconnectTimer' = [reconnectTimer EXCEPT ![s] = [r \in Rooms |-> 0]]
  /\ conns' = [conns EXCEPT ![s] = Restrict(@, DOMAIN @ \ {peerConnections[s][p] : p \in Users})]
  /\ tasks' = [tasks EXCEPT ![s] = KeepTasks(@, {peerConnections[s][p] : p \in Users} \ {0})]
  /\ peerConnections' = [peerConnections EXCEPT ![s] = [p \in Users |-> 0]]
  /\ iceCandidatesQueue' = [iceCandidatesQueue EXCEPT ![s] = [p \in Users |-> << >>]]
  /\ queuedLog' = [queuedLog EXCEPT ![s] = [p \in Users |-> << >>]]
  /\ requested' = [requested EXCEPT ![s] = {}]
  /\ streams' = IF localStreamRef[s] # 0
                THEN [streams EXCEPT ![s][localStreamRef[s]] = FALSE]
                ELSE streams
  /\ localStreamRef' = [localStreamRef EXCEPT ![s] = 0]
  /\ participants' = [participants EXCEPT ![s] = {}]
  /\ channel' = Rechannel(s, NoChannel)
  /\ inAudioRoom' = [inAudioRoom EXCEPT ![s] = FALSE]

\* leaveRoom() with the timeouts left pending being pend
leaveRoomWith(s, pend) ==
  /\ out' = IF channel[s].st # "none"
            THEN {Msg("leave", userId(s), NoUser, 0)} ELSE {}
  /\ cleanup(s, pend)
  /\ Transport(s, channel[s].room, EmptyBag)
  /\ leftRoom' = [leftRoom EXCEPT ![s] = TRUE]
  /\ lastRecv' = NoRecv
  /\ toast' = {}
  /\ UNCHANGED << callVars, videoVars >>
  /\ UNCHANGED << mounted, reconnectAttempts, offered, closedSinceSub >>

\* leaveRoom()
leaveRoom(s) ==
  /\ s \in mounted
  /\ leaveRoomWith(s, Uncleared(s))
  /\ UNCHANGED nextTimer

\* switchDevice(deviceId) of a session whose activeRoomId is r:
\* `if (inAudioRoom) { leaveRoom(); setTimeout(() => handleJoin(deviceId), 100) }`
switchDevice(s, r) ==
  /\ s \in mounted
  /\ inAudioRoom[s]
  /\ leaveRoomWith(s, Uncleared(s) \cup
                        {[id |-> nextTimer[s], room |-> r, delay |-> RejoinDelay,
                          kind |-> "rejoin", stale |-> FALSE]})
  /\ nextTimer' = [nextTimer EXCEPT ![s] = @ + 1]

\* -------------------------------------------------------------- initChannel
\* initChannel(stream, targetRoomId): the previous channel is removed, the new
\* one is subscribing; its handlers close over stream
initChannel(s, strm, r) ==
  /\ channel' = Rechannel(s, [room |-> r, stream |-> strm, st |-> "joining", existing |-> {}])
  /\ out' = {}
  /\ Transport(s, r, EmptyBag)

\* the server completes the join of the channel: broadcasts reach it from now on
ServerJoined(s) ==
  /\ s \in mounted
  /\ channel[s].st = "joining"
  /\ channel' = [channel EXCEPT ![s].st = "joined",
                                 ![s].existing = {userId(x) : x \in {y \in mounted \ {s} :
                                                     /\ channel[y].st = "subscribed"
                                                     /\ channel[y].room = channel[s].room
                                                     /\ channel[y].stream # 0}}]
  /\ lastRecv' = NoRecv
  /\ toast' = {}
  /\ UNCHANGED << callVars, videoVars >>
  /\ out' = {}
  /\ UNCHANGED << requested, mounted, localStreamRef, streams, inAudioRoom, participants,
                  peerConnections, conns, iceCandidatesQueue, reconnectAttempts,
                  reconnectTimer, timers, nextTimer, tasks, inbox, offered,
                  queuedLog, leftRoom, closedSinceSub >>

Subscribed_KeepsAttempts(s) ==
  /\ s \in mounted
  /\ channel[s].st = "joined"
  /\ channel' = [channel EXCEPT ![s].st = "subscribed"]
  /\ UNCHANGED reconnectAttempts
  /\ closedSinceSub' = [closedSinceSub EXCEPT ![s][channel[s].room] = 0]
  /\ out' = {Msg("join-request", userId(s), NoUser, 0)}
  /\ Transport(s, channel[s].room, inbox[s])
  /\ lastRecv' = NoRecv
  /\ toast' = {}
  /\ UNCHANGED << callVars, videoVars >>
  /\ UNCHANGED << requested, mounted, localStreamRef, streams, inAudioRoom, participants,
                  peerConnections, conns, iceCandidatesQueue, reconnectTimer,
                  timers, nextTimer, tasks, offered, queuedLog, leftRoom >>

\* subscribe callback, status SUBSCRIBED
Subscribed(s) ==
  /\ s \in mounted
  /\ channel[s].st = "joined"
  /\ channel' = [channel EXCEPT ![s].st = "subscribed"]
  /\ reconnectAttempts' = [reconnectAttempts EXCEPT ![s][channel[s].room] = 0]
  /\ closedSinceSub' = [closedSinceSub EXCEPT ![s][channel[s].room] = 0]
  /\ out' = {Msg("join-request", userId(s), NoUser, 0)}
  /\ Transport(s, channel[s].room, inbox[s])
  /\ lastRecv' = NoRecv
  /\ toast' = {}
  /\ UNCHANGED << callVars, videoVars >>
  /\ UNCHANGED << requested, mounted, localStreamRef, streams, inAudioRoom, participants,
                  peerConnections, conns, iceCandidatesQueue, reconnectTimer,
                  timers, nextTimer, tasks, offered, queuedLog, leftRoom >>

\* `attempts < 3`
MayReconnect_Inclusive(attempts) == attempts <= MaxReconnect
MayReconnect(attempts) == attempts < MaxReconnect

\* `1500 * (attempts + 1)`
Backoff(attempts) == BackoffBase * (attempts + 1)

\* subscribe callback, status CLOSED: the channel closed unexpectedly
Closed(s) ==
  LET r        == channel[s].room
      attempts == reconnectAttempts[s][r]
  IN
  /\ s \in mounted
  /\ channel[s].st \in {"joining", "joined", "subscribed"}
  /\ channel' = Rechannel(s, [channel[s] EXCEPT !.st = "closed", !.existing = {}])
  /\ IF MayReconnect(attempts)
     THEN /\ reconnectAttempts' = [reconnectAttempts EXCEPT ![s][r] = attempts + 1]
          /\ reconnectTimer' = [reconnectTimer EXCEPT ![s][r] = nextTimer[s]]
          /\ timers' = [timers EXCEPT ![s] = @ \cup
                          {[id |-> nextTimer[s], room |-> r, delay |-> Backoff(attempts),
                            kind |-> "reconnect", stale |-> FALSE]}]
          /\ nextTimer' = [nextTimer EXCEPT ![s] = @ + 1]
     ELSE UNCHANGED << reconnectAttempts, reconnectTimer, timers, nextTimer >>
  /\ closedSinceSub' = [closedSinceSub EXCEPT ![s][r] = @ + 1]
  /\ out' = {}
  /\ inbox' = [inbox EXCEPT ![s] = EmptyBag]
  /\ lastRecv' = NoRecv
  /\ toast' = {}
  /\ UNCHANGED << callVars, videoVars >>
  /\ UNCHANGED << requested, mounted, localStreamRef, streams, inAudioRoom, participants,
                  peerConnections, conns, iceCandidatesQueue, tasks, offered,
                  queuedLog, leftRoom >>

\* the reconnect timeout fires: initChannel(localStreamRef.current, targetRoomId)
TimerFire(s, tm) ==
  /\ s \in mounted
  /\ tm \in timers[s]
  /\ tm.kind = "reconnect"
  /\ timers' = [timers EXCEPT ![s] = @ \ {tm}]
  /\ initChannel(s, localStreamRef[s], tm.room)
  /\ lastRecv' = NoRecv
  /\ toast' = {}
  /\ UNCHANGED << callVars, videoVars >>
  /\ UNCHANGED << requested, mounted, localStreamRef, streams, inAudioRoom, participants,
                  peerConnections, conns, iceCandidatesQueue, reconnectAttempts,
                  reconnectTimer, nextTimer, tasks, offered, queuedLog, leftRoom,
                  closedSinceSub >>

\* ---------------------------------------------------------------- handleJoin
\* handleJoin(deviceId, overrideRoomId) up to `await getUserMedia`
requestUserMedia(s, r) ==
  /\ tasks' = [tasks EXCEPT ![s] = AddTask(@, Task("handleJoin", "getUserMedia", NoUser, 0, r, << >>, 0))]
  /\ leftRoom' = [leftRoom EXCEPT ![s] = FALSE]
  /\ out' = {}
  /\ lastRecv' = NoRecv
  /\ toast' = {}
  /\ UNCHANGED << callVars, videoVars >>
  /\ UNCHANGED << requested, mounted, localStreamRef, streams, inAudioRoom, participants,
                  peerConnections, conns, iceCandidatesQueue, channel,
                  reconnectAttempts, reconnectTimer, nextTimer, inbox,
                  offered, queuedLog, closedSinceSub >>

\* handleJoin invoked by the user of the hook (joinRoom)
handleJoin(s, r) ==
  /\ s \in mounted
  /\ requestUserMedia(s, r)
  /\ UNCHANGED timers

\* the timeout of switchDevice fires: handleJoin(deviceId)
RejoinFire(s, tm) ==
  /\ s \in mounted
  /\ tm \in timers[s]
  /\ tm.kind = "rejoin"
  /\ timers' = [timers EXCEPT ![s] = @ \ {tm}]
  /\ requestUserMedia(s, tm.room)

\* getUserMedia resolved; suspended = the shared AudioContext has to be resumed
GotUserMedia(s, t, suspended) ==
  LET strm == Len(streams[s]) + 1 IN
  /\ s \in mounted
  /\ t \in DOMAIN tasks[s] /\ t.kind = "handleJoin" /\ t.at = "getUserMedia"
  /\ streams' = [streams EXCEPT ![s] = Append(@, TRUE)]
  /\ localStreamRef' = [localStreamRef EXCEPT ![s] = strm]
  /\ inAudioRoom' = [inAudioRoom EXCEPT ![s] = TRUE]
  /\ IF suspended
     THEN /\ tasks' = [tasks EXCEPT ![s] =
                         AddTask(DelTask(@, t), [t EXCEPT !.at = "resume", !.stream = strm])]
          /\ out' = {}
          /\ UNCHANGED << channel, inbox >>
     ELSE /\ tasks' = [tasks EXCEPT ![s] = DelTask(@, t)]
          /\ initChannel(s, strm, t.room)
  /\ lastRecv' = NoRecv
  /\ toast' = {}
  /\ UNCHANGED << callVars, videoVars >>
  /\ UNCHANGED << requested, mounted, participants, peerConnections, conns, iceCandidatesQueue,
                  reconnectAttempts, reconnectTimer, timers, nextTimer, offered,
                  queuedLog, leftRoom, closedSinceSub >>

\* a catch block that reports the error and shows the room as entered
UserMediaDenied_EntersRoom(s, t) ==
  /\ s \in mounted
  /\ t \in DOMAIN tasks[s] /\ t.kind = "handleJoin" /\ t.at = "getUserMedia"
  /\ tasks' = [tasks EXCEPT ![s] = DelTask(@, t)]
  /\ inAudioRoom' = [inAudioRoom EXCEPT ![s] = TRUE]
  /\ out' = {}
  /\ lastRecv' = NoRecv
  /\ toast' = {"Microphone Access Error"}
  /\ UNCHANGED << callVars, videoVars >>
  /\ UNCHANGED << requested, mounted, localStreamRef, streams, participants,
                  peerConnections, conns, iceCandidatesQueue, channel,
                  reconnectAttempts, reconnectTimer, timers, nextTimer, inbox,
                  offered, queuedLog, leftRoom, closedSinceSub >>

\* getUserMedia rejected: the catch block reports the error
UserMediaDenied(s, t) ==
  /\ s \in mounted
  /\ t \in DOMAIN tasks[s] /\ t.kind = "handleJoin" /\ t.at = "getUserMedia"
  /\ tasks' = [tasks EXCEPT ![s] = DelTask(@, t)]
  /\ out' = {}
  /\ lastRecv' = NoRecv
  /\ toast' = {"Microphone Access Error"}
  /\ UNCHANGED << callVars, videoVars >>
  /\ UNCHANGED << requested, mounted, localStreamRef, streams, inAudioRoom, participants,
                  peerConnections, conns, iceCandidatesQueue, channel,
                  reconnectAttempts, reconnectTimer, timers, nextTimer, inbox,
                  offered, queuedLog, leftRoom, closedSinceSub >>

\* AudioContext.resume() settled (a rejection is caught): initChannel(stream, targetId)
AudioResumed(s, t) ==
  /\ s \in mounted
  /\ t \in DOMAIN tasks[s] /\ t.kind = "handleJoin" /\ t.at = "resume"
  /\ tasks' = [tasks EXCEPT ![s] = DelTask(@, t)]
  /\ initChannel(s, t.stream, t.room)
  /\ lastRecv' = NoRecv
  /\ toast' = {}
  /\ UNCHANGED << callVars, videoVars >>
  /\ UNCHANGED << requested, mounted, localStreamRef, streams, inAudioRoom, participants,
                  peerConnections, conns, iceCandidatesQueue, reconnectAttempts,
                  reconnectTimer, timers, nextTimer, offered, queuedLog, leftRoom,
                  closedSinceSub >>


\* ------------------------------------------------- broadcast event handlers
\* what no event handler and no continuation of one touches
HandlerFrame ==
  UNCHANGED << mounted, localStreamRef, streams, inAudioRoom, channel,
               reconnectAttempts, reconnectTimer, timers, nextTimer, leftRoom,
               closedSinceSub >>

\* the guards of the event handlers
JoinRequestAccepted_NoSenderCheck(s, m) == channel[s].stream # 0
JoinRequestAccepted(s, m) == m.sender # userId(s) /\ channel[s].stream # 0

OfferAccepted(s, m) == m.target = userId(s) /\ channel[s].stream # 0

AnswerAccepted(s, m) == m.target = userId(s)

IceCandidateAccepted_NoTargetCheck(s, m) == TRUE
IceCandidateAccepted(s, m) == m.target = userId(s)

\* .on("broadcast", { event: "join-request" }) up to `await pc.createOffer()`
OnJoinRequest(s, m, base) ==
  LET sender == m.sender
      r      == createPeerConnection(s, sender)
  IN
  /\ IF JoinRequestAccepted(s, m)
     THEN /\ peerConnections' = [peerConnections EXCEPT ![s] = r.reg]
          /\ conns' = [conns EXCEPT ![s] = r.conns]
          /\ tasks' = [tasks EXCEPT ![s] =
                AddTask(@, Task("join-request", "createOffer", sender, r.id, channel[s].room, << >>, 0))]
          /\ requested' = [requested EXCEPT ![s] = @ \cup {sender}]
     ELSE UNCHANGED << peerConnections, conns, tasks, requested >>
  /\ out' = {}
  /\ Transport(s, channel[s].room, base)
  /\ UNCHANGED << participants, iceCandidatesQueue, queuedLog, offered >>

\* an offer handler that, as the answer handler does, looks its connection up
\* and does nothing without one
OnOffer_LooksUp(s, m, base) ==
  LET sender == m.sender
      pc     == peerConnections[s][sender]
  IN
  /\ IF OfferAccepted(s, m) /\ pc # 0
     THEN tasks' = [tasks EXCEPT ![s] =
                AddTask(@, Task("offer", "setRemote", sender, pc, channel[s].room, << >>, 0))]
     ELSE UNCHANGED tasks
  /\ out' = {}
  /\ Transport(s, channel[s].room, base)
  /\ UNCHANGED << peerConnections, conns, participants, iceCandidatesQueue, queuedLog,
                  offered, requested >>

\* .on("broadcast", { event: "offer" }) up to `await pc.setRemoteDescription(...)`
OnOffer(s, m, base) ==
  LET sender == m.sender
      r      == createPeerConnection(s, sender)
  IN
  /\ IF OfferAccepted(s, m)
     THEN /\ peerConnections' = [peerConnections EXCEPT ![s] = r.reg]
          /\ conns' = [conns EXCEPT ![s] = r.conns]
          /\ tasks' = [tasks EXCEPT ![s] =
                AddTask(@, Task("offer", "setRemote", sender, r.id, channel[s].room, << >>, 0))]
     ELSE UNCHANGED << peerConnections, conns, tasks >>
  /\ out' = {}
  /\ Transport(s, channel[s].room, base)
  /\ UNCHANGED << participants, iceCandidatesQueue, queuedLog, offered, requested >>

\* an answer handler that, as the offer handler does, takes its connection
\* from createPeerConnection
OnAnswer_CreatesConnection(s, m, base) ==
  LET sender == m.sender
      r      == createPeerConnection(s, sender)
  IN
  /\ IF AnswerAccepted(s, m)
     THEN /\ peerConnections' = [peerConnections EXCEPT ![s] = r.reg]
          /\ conns' = [conns EXCEPT ![s] = r.conns]
          /\ tasks' = [tasks EXCEPT ![s] =
                AddTask(@, Task("answer", "setRemote", sender, r.id, channel[s].room, << >>, 0))]
     ELSE UNCHANGED << peerConnections, conns, tasks >>
  /\ out' = {}
  /\ Transport(s, channel[s].room, base)
  /\ UNCHANGED << participants, iceCandidatesQueue, queuedLog, offered, requested >>

\* .on("broadcast", { event: "answer" }) up to `await pc.setRemoteDescription(...)`
OnAnswer(s, m, base) ==
  LET sender == m.sender
      pc     == peerConnections[s][sender]
  IN
  /\ IF AnswerAccepted(s, m) /\ pc # 0
     THEN tasks' = [tasks EXCEPT ![s] =
                AddTask(@, Task("answer", "setRemote", sender, pc, channel[s].room, << >>, 0))]
     ELSE UNCHANGED tasks
  /\ out' = {}
  /\ Transport(s, channel[s].room, base)
  /\ UNCHANGED << peerConnections, conns, participants, iceCandidatesQueue, queuedLog,
                  offered, requested >>

\* .on("broadcast", { event: "ice-candidate" })
OnIceCandidateEvent(s, m, base) ==
  LET r == addIceCandidate(s, m.sender, m.candidate) IN
  /\ IF IceCandidateAccepted(s, m)
     THEN /\ conns' = [conns EXCEPT ![s] = r.conns]
          /\ iceCandidatesQueue' = [iceCandidatesQueue EXCEPT ![s] = r.queue]
          /\ queuedLog' = IF r.queued
                          THEN [queuedLog EXCEPT ![s][m.sender] = Append(@, m.candidate)]
                          ELSE queuedLog
     ELSE UNCHANGED << conns, iceCandidatesQueue, queuedLog >>
  /\ out' = {}
  /\ Transport(s, channel[s].room, base)
  /\ UNCHANGED << peerConnections, participants, tasks, offered, requested >>

\* a leave handler that resets iceCandidatesQueue.current instead of deleting one key
OnLeave_ClearsQueues(s, m, base) ==
  LET sender == m.sender
      pc     == peerConnections[s][sender]
  IN
  /\ IF pc # 0
     THEN /\ conns' = [conns EXCEPT ![s] = Restrict(@, DOMAIN @ \ {pc})]
          /\ tasks' = [tasks EXCEPT ![s] = KeepTasks(@, {pc})]
          /\ peerConnections' = [peerConnections EXCEPT ![s][sender] = 0]
          /\ iceCandidatesQueue' = [iceCandidatesQueue EXCEPT ![s] = [p \in Users |-> << >>]]
          /\ queuedLog' = [queuedLog EXCEPT ![s][sender] = << >>]
          /\ requested' = [requested EXCEPT ![s] = @ \ {sender}]
          /\ participants' = [participants EXCEPT ![s] = @ \ {sender}]
     ELSE UNCHANGED << conns, tasks, peerConnections, iceCandidatesQueue, queuedLog,
                       requested, participants >>
  /\ out' = {}
  /\ Transport(s, channel[s].room, base)
  /\ UNCHANGED offered

\* .on("broadcast", { event: "leave" })
OnLeave(s, m, base) ==
  LET sender == m.sender
      pc     == peerConnections[s][sender]
  IN
  /\ IF pc # 0
     THEN /\ conns' = [conns EXCEPT ![s] = Restrict(@, DOMAIN @ \ {pc})]
          /\ tasks' = [tasks EXCEPT ![s] = KeepTasks(@, {pc})]
          /\ peerConnections' = [peerConnections EXCEPT ![s][sender] = 0]
          /\ iceCandidatesQueue' = [iceCandidatesQueue EXCEPT ![s][sender] = << >>]
          /\ queuedLog' = [queuedLog EXCEPT ![s][sender] = << >>]
          /\ requested' = [requested EXCEPT ![s] = @ \ {sender}]
          /\ participants' = [participants EXCEPT ![s] = @ \ {sender}]
     ELSE UNCHANGED << conns, tasks, peerConnections, iceCandidatesQueue, queuedLog,
                       requested, participants >>
  /\ out' = {}
  /\ Transport(s, channel[s].room, base)
  /\ UNCHANGED offered

\* the channel of session s hands event m to its handler
HandleEvent(s, m, base) ==
  /\ s \in mounted
  /\ channel[s].st = "subscribed"
  /\ lastRecv' = [handled |-> TRUE, echo |-> m.sender = userId(s),
                   foreign |-> m.target \notin {userId(s), NoUser},
                   session |-> s, event |-> m.event, sender |-> m.sender]
  /\ toast' = {}
  /\ UNCHANGED << callVars, videoVars >>
  /\ CASE m.event = "join-request"  -> OnJoinRequest(s, m, base)
       [] m.event = "offer"         -> OnOffer(s, m, base)
       [] m.event = "answer"        -> OnAnswer(s, m, base)
       [] m.event = "ice-candidate" -> OnIceCandidateEvent(s, m, base)
       [] m.event = "leave"         -> OnLeave(s, m, base)
  /\ HandlerFrame

\* ------------------------------------------------ continuations of handlers
IsTask(s, t, k, at) == s \in mounted /\ t \in DOMAIN tasks[s] /\ t.kind = k /\ t.at = at

\* join-request handler: createOffer resolved, `await pc.setLocalDescription(offer)`
OfferCreated(s, t) ==
  /\ IsTask(s, t, "join-request", "createOffer")
  /\ tasks' = [tasks EXCEPT ![s] = AddTask(DelTask(@, t), [t EXCEPT !.at = "setLocal"])]
  /\ out' = {}
  /\ lastRecv' = NoRecv
  /\ toast' = {}
  /\ UNCHANGED << callVars, videoVars >>
  /\ HandlerFrame
  /\ UNCHANGED << requested, peerConnections, conns, participants, iceCandidatesQueue, queuedLog,
                  offered, inbox >>

\* payload: { target: sender, sender: userId, offer }
OfferMsg_Swapped(s, t) == Msg("offer", t.peer, userId(s), 0)
OfferMsg(s, t) == Msg("offer", userId(s), t.peer, 0)

\* join-request handler: setLocalDescription resolved, the offer is sent
OfferSent(s, t) ==
  /\ IsTask(s, t, "join-request", "setLocal")
  /\ tasks' = [tasks EXCEPT ![s] = DelTask(@, t)]
  /\ conns' = [conns EXCEPT ![s][t.pc].local = TRUE]
  /\ out' = {OfferMsg(s, t)}
  /\ offered' = offered \cup Offers(out')
  /\ Transport(s, t.room, inbox[s])
  /\ lastRecv' = NoRecv
  /\ toast' = {}
  /\ UNCHANGED << callVars, videoVars >>
  /\ HandlerFrame
  /\ UNCHANGED << requested, peerConnections, participants, iceCandidatesQueue, queuedLog >>

\* what follows `await processIceQueue(sender)` in the handler of t
AfterDrain(b, t) ==
  IF t.kind = "offer"
  THEN AddTask(DelTask(b, t), [t EXCEPT !.at = "createAnswer", !.rest = << >>])
  ELSE DelTask(b, t)

\* offer / answer handler: setRemoteDescription resolved, processIceQueue starts
RemoteSet(s, t) ==
  LET q == processIceQueue(s, t.peer, [conns[s] EXCEPT ![t.pc].remote = TRUE]) IN
  /\ \/ IsTask(s, t, "offer", "setRemote")
     \/ IsTask(s, t, "answer", "setRemote")
  /\ conns' = [conns EXCEPT ![s] = q.conns]
  /\ iceCandidatesQueue' = [iceCandidatesQueue EXCEPT ![s] = q.queue]
  /\ tasks' = [tasks EXCEPT ![s] =
                 IF q.done THEN AfterDrain(@, t)
                 ELSE AddTask(DelTask(@, t), [t EXCEPT !.at = "drain", !.rest = q.rest])]
  /\ out' = {}
  /\ lastRecv' = NoRecv
  /\ toast' = {}
  /\ UNCHANGED << callVars, videoVars >>
  /\ HandlerFrame
  /\ UNCHANGED << requested, peerConnections, participants, queuedLog, offered, inbox >>

\* a drain whose try / catch encloses the loop: the first rejected candidate
\* ends it, the candidates after it and the queue are left as they are
Drained_AbortsOnFailure(s, t) ==
  LET a == conns[s][t.pc].applied IN
  /\ \/ IsTask(s, t, "offer", "drain")
     \/ IsTask(s, t, "answer", "drain")
  /\ IF Throws(a[Len(a)])
     THEN /\ tasks' = [tasks EXCEPT ![s] = AfterDrain(@, t)]
          /\ UNCHANGED << conns, iceCandidatesQueue >>
     ELSE IF t.rest = << >>
     THEN /\ iceCandidatesQueue' = [iceCandidatesQueue EXCEPT ![s][t.peer] = << >>]
          /\ tasks' = [tasks EXCEPT ![s] = AfterDrain(@, t)]
          /\ UNCHANGED conns
     ELSE /\ conns' = [conns EXCEPT ![s] = Apply(@, t.pc, Head(t.rest))]
          /\ tasks' = [tasks EXCEPT ![s] = AddTask(DelTask(@, t), [t EXCEPT !.rest = Tail(t.rest)])]
          /\ UNCHANGED iceCandidatesQueue
  /\ out' = {}
  /\ lastRecv' = NoRecv
  /\ toast' = {}
  /\ UNCHANGED << callVars, videoVars >>
  /\ HandlerFrame
  /\ UNCHANGED << requested, peerConnections, participants, queuedLog, offered, inbox >>

\* processIceQueue: the awaited pc.addIceCandidate settled; next candidate, or
\* `delete iceCandidatesQueue.current[senderId]` after the last one
Drained(s, t) ==
  /\ \/ IsTask(s, t, "offer", "drain")
     \/ IsTask(s, t, "answer", "drain")
  /\ IF t.rest = << >>
     THEN /\ iceCandidatesQueue' = [iceCandidatesQueue EXCEPT ![s][t.peer] = << >>]
          /\ tasks' = [tasks EXCEPT ![s] = AfterDrain(@, t)]
          /\ UNCHANGED conns
     ELSE /\ conns' = [conns EXCEPT ![s] = Apply(@, t.pc, Head(t.rest))]
          /\ tasks' = [tasks EXCEPT ![s] = AddTask(DelTask(@, t), [t EXCEPT !.rest = Tail(t.rest)])]
          /\ UNCHANGED iceCandidatesQueue
  /\ out' = {}
  /\ lastRecv' = NoRecv
  /\ toast' = {}
  /\ UNCHANGED << callVars, videoVars >>
  /\ HandlerFrame
  /\ UNCHANGED << requested, peerConnections, participants, queuedLog, offered, inbox >>

\* offer handler: createAnswer resolved, `await pc.setLocalDescription(answer)`
AnswerCreated(s, t) ==
  /\ IsTask(s, t, "offer", "createAnswer")
  /\ tasks' = [tasks EXCEPT ![s] = AddTask(DelTask(@, t), [t EXCEPT !.at = "setLocal"])]
  /\ out' = {}
  /\ lastRecv' = NoRecv
  /\ toast' = {}
  /\ UNCHANGED << callVars, videoVars >>
  /\ HandlerFrame
  /\ UNCHANGED << requested, peerConnections, conns, participants, iceCandidatesQueue, queuedLog,
                  offered, inbox >>

\* offer handler: setLocalDescription resolved, the answer is sent
AnswerSent(s, t) ==
  /\ IsTask(s, t, "offer", "setLocal")
  /\ tasks' = [tasks EXCEPT ![s] = DelTask(@, t)]
  /\ conns' = [conns EXCEPT ![s][t.pc].local = TRUE]
  /\ out' = {Msg("answer", userId(s), t.peer, 0)}
  /\ Transport(s, t.room, inbox[s])
  /\ lastRecv' = NoRecv
  /\ toast' = {}
  /\ UNCHANGED << callVars, videoVars >>
  /\ HandlerFrame
  /\ UNCHANGED << requested, peerConnections, participants, iceCandidatesQueue, queuedLog, offered >>

\* an awaited createOffer / createAnswer / setLocalDescription /
\* setRemoteDescription rejects: the handler ends with an unhandled rejection
OperationRejected(s, t) ==
  /\ s \in mounted
  /\ t \in DOMAIN tasks[s]
  /\ t.kind \in {"join-request", "offer", "answer"}
  /\ t.at \in {"createOffer", "createAnswer", "setLocal", "setRemote"}
  /\ tasks' = [tasks EXCEPT ![s] = DelTask(@, t)]
  /\ out' = {}
  /\ lastRecv' = NoRecv
  /\ toast' = {}
  /\ UNCHANGED << callVars, videoVars >>
  /\ HandlerFrame
  /\ UNCHANGED << requested, peerConnections, conns, participants, iceCandidatesQueue, queuedLog,
                  offered, inbox >>

\* ------------------------------------------------- peer connection observers
\* pc.onicecandidate of connection id, which gathers once a local description is set
OnIceCandidate(s, id, max) ==
  /\ s \in mounted
  /\ id \in DOMAIN conns[s]
  /\ conns[s][id].local
  /\ conns[s][id].ncand < max
  /\ conns' = [conns EXCEPT ![s][id].ncand = @ + 1]
  /\ out' = IF channel[s].st # "none"
            THEN {Msg("ice-candidate", userId(s), conns[s][id].peer, conns[s][id].ncand + 1)}
            ELSE {}
  /\ Transport(s, channel[s].room, inbox[s])
  /\ lastRecv' = NoRecv
  /\ toast' = {}
  /\ UNCHANGED << callVars, videoVars >>
  /\ HandlerFrame
  /\ UNCHANGED << requested, peerConnections, participants, iceCandidatesQueue, queuedLog, offered,
                  tasks >>

\* pc.ontrack of connection id: a remote track arrives, the Participant is upserted
\* a handler of connection state changes that gives up a failed connection
OnConnectionStateChange_Drops(s, id, st) ==
  /\ s \in mounted
  /\ id \in DOMAIN conns[s]
  /\ conns[s][id].remote
  /\ << conns[s][id].state, st >> \in
       {<< "new", "disconnected" >>, << "new", "failed" >>, << "disconnected", "failed" >>}
  /\ IF st = "failed"
     THEN /\ conns' = [conns EXCEPT ![s] = Restrict(@, DOMAIN @ \ {id})]
          /\ tasks' = [tasks EXCEPT ![s] = KeepTasks(@, {id})]
          /\ peerConnections' = [peerConnections EXCEPT ![s][conns[s][id].peer] = 0]
          /\ participants' = [participants EXCEPT ![s] = @ \ {conns[s][id].peer}]
     ELSE /\ conns' = [conns EXCEPT ![s][id].state = st]
          /\ UNCHANGED << tasks, peerConnections, participants >>
  /\ out' = {}
  /\ lastRecv' = NoRecv
  /\ toast' = {}
  /\ UNCHANGED << callVars, videoVars >>
  /\ HandlerFrame
  /\ UNCHANGED << requested, iceCandidatesQueue, queuedLog, offered, inbox >>

\* pc.onconnectionstatechange / pc.oniceconnectionstatechange: the connection,
\* whose ICE agent has a remote description to check against, has become st;
\* the observers log, and warn on failed and disconnected
OnConnectionStateChange(s, id, st) ==
  /\ s \in mounted
  /\ id \in DOMAIN conns[s]
  /\ conns[s][id].remote
  /\ << conns[s][id].state, st >> \in
       {<< "new", "disconnected" >>, << "new", "failed" >>, << "disconnected", "failed" >>}
  /\ conns' = [conns EXCEPT ![s][id].state = st]
  /\ out' = {}
  /\ lastRecv' = NoRecv
  /\ toast' = {}
  /\ UNCHANGED << callVars, videoVars >>
  /\ HandlerFrame
  /\ UNCHANGED << requested, peerConnections, participants, iceCandidatesQueue, queuedLog,
                  offered, tasks, inbox >>

OnTrack(s, id) ==
  /\ s \in mounted
  /\ id \in DOMAIN conns[s]
  /\ conns[s][id].remote
  /\ conns[s][id].peer \notin participants[s]
  /\ participants' = [participants EXCEPT ![s] = @ \cup {conns[s][id].peer}]
  /\ out' = {}
  /\ lastRecv' = NoRecv
  /\ toast' = {}
  /\ UNCHANGED << callVars, videoVars >>
  /\ HandlerFrame
  /\ UNCHANGED << requested, peerConnections, conns, iceCandidatesQueue, queuedLog, offered,
                  tasks, inbox >>


\* -------------------------------------------------------------- environments
\* the channel forwards a broadcast of another session
Deliver(s, m) ==
  /\ BagIn(m, inbox[s])
  /\ HandleEvent(s, m, inbox[s] (-) SetToBag({m}))

\* the users whose sessions are the environment of the open session: another
\* user, and user A itself in a second tab or device
Peers == {"A", "B"}

\* events that sessions of these users can broadcast; no session targets an
\* event at its own user (OwnEventsWellFormed establishes it of the sessions
\* modelled here), which EnvEvent requires of m
EnvMsgs(s) ==
       {Msg(ev, p, NoUser, 0) : ev \in {"join-request", "leave"}, p \in Peers}
  \cup {Msg(ev, p, q, 0) : ev \in {"offer", "answer"}, p \in Peers, q \in Users}
  \cup {Msg("ice-candidate", p, q, c) : p \in Peers, q \in Users, c \in 1..MaxCand}

\* a remote peer broadcasts m while session s is subscribed
EnvEvent(s, m) ==
  /\ m.sender # m.target
  /\ HandleEvent(s, m, inbox[s])

InitVoice(M) ==
  /\ requested = [s \in Sessions |-> {}]
  /\ mounted = M
  /\ localStreamRef = [s \in Sessions |-> 0]
  /\ streams = [s \in Sessions |-> << >>]
  /\ inAudioRoom = [s \in Sessions |-> FALSE]
  /\ participants = [s \in Sessions |-> {}]
  /\ peerConnections = [s \in Sessions |-> [p \in Users |-> 0]]
  /\ conns = [s \in Sessions |-> << >>]
  /\ iceCandidatesQueue = [s \in Sessions |-> [p \in Users |-> << >>]]
  /\ channel = [s \in Sessions |-> NoChannel]
  /\ reconnectAttempts = [s \in Sessions |-> [r \in Rooms |-> 0]]
  /\ reconnectTimer = [s \in Sessions |-> [r \in Rooms |-> 0]]
  /\ timers = [s \in Sessions |-> {}]
  /\ nextTimer = [s \in Sessions |-> 1]
  /\ tasks = [s \in Sessions |-> EmptyBag]
  /\ inbox = [s \in Sessions |-> EmptyBag]
  /\ out = {}
  /\ offered = {}
  /\ queuedLog = [s \in Sessions |-> [p \in Users |-> << >>]]
  /\ leftRoom = [s \in Sessions |-> FALSE]
  /\ closedSinceSub = [s \in Sessions |-> [r \in Rooms |-> 0]]
  /\ lastRecv = NoRecv
  /\ toast = {}

\* steps of one session other than the invocations bounded per specification
SessionStep(s) ==
  \/ leaveRoom(s)
  \/ ServerJoined(s)
  \/ Subscribed(s)
  \/ \E tm \in timers[s] : TimerFire(s, tm)
  \/ \E t \in DOMAIN tasks[s], suspended \in BOOLEAN : GotUserMedia(s, t, suspended)
  \/ \E t \in DOMAIN tasks[s] : UserMediaDenied(s, t)
  \/ \E t \in DOMAIN tasks[s] : AudioResumed(s, t)
  \/ \E t \in DOMAIN tasks[s] : OfferCreated(s, t)
  \/ \E t \in DOMAIN tasks[s] : OfferSent(s, t)
  \/ \E t \in DOMAIN tasks[s] : RemoteSet(s, t)
  \/ \E t \in DOMAIN tasks[s] : AnswerCreated(s, t)
  \/ \E t \in DOMAIN tasks[s] : AnswerSent(s, t)
  \/ \E t \in DOMAIN tasks[s] : OperationRejected(s, t)
  \/ \E id \in DOMAIN conns[s] : OnTrack(s, id)

\* ------------------------------------------------ bounds on the exploration
Pending(s, kinds) == BagCardinality(Restrict(tasks[s], {t \in DOMAIN tasks[s] : t.kind \in kinds}))

\* a further handleJoin may be invoked
MayJoin(s, max) == Len(streams[s]) + Pending(s, {"handleJoin"}) < max

\* a further closure may be signalled
RECURSIVE Sum(_, _)
Sum(f, S) == IF S = {} THEN 0 ELSE LET x == CHOOSE y \in S : TRUE IN f[x] + Sum(f, S \ {x})

\* a further closure may be signalled: max bounds the reconnect timers scheduled
\* by all sessions together
MayClose(s, max) ==
  \/ Sum(nextTimer, mounted) - Cardinality(mounted) < max
  \/ channel[s].room \in Rooms /\ reconnectAttempts[s][channel[s].room] >= MaxReconnect

\* a further timeout may be scheduled by switchDevice
MaySwitch(s, max) == nextTimer[s] - 1 < max

\* a further event may reach a handler
MayHandle(s, m, maxTasks, maxCand) ==
  LET pc == peerConnections[s][m.sender] IN
  /\ m.event \in {"join-request", "offer", "answer"}
       => Pending(s, {"join-request", "offer", "answer"}) < maxTasks
  /\ m.event = "ice-candidate"
       => Len(queuedLog[s][m.sender]) + (IF pc # 0 THEN Len(conns[s][pc].applied) ELSE 0) < maxCand

\* ============================================================ useCallSystem
\* two users, each with one mounted useCallSystem subscribed to calls:<user>;
\* the two share the conversations of Convs
CallUsers == {"A", "B"}
Convs     == {"c1", "c2"}

Other(u) == IF u = "A" THEN "B" ELSE "A"

NoCall   == [conversationId |-> "none", roomId |-> "none", otherUser |-> "none",
             isInitiator |-> FALSE]
NoLog    == [conversation_id |-> "none", sender_id |-> "none", status |-> "none",
             duration |-> << >>]
NoSignal == [to |-> "none", event |-> "none", conversation_id |-> "none", step |-> "none",
             superseded |-> FALSE]

\* the payload of a call event; sender is caller_id / responder_id. The payload
\* of invite carries room_id; on the other events room_id is a history field,
\* the roomId of the call on whose behalf the event was sent, which no handler reads
Signal(ev, c, u, rid) == [event |-> ev, conversation_id |-> c, sender |-> u, room_id |-> rid]

\* superseded: the event belongs to another call of the conversation of u's call
Handled(u, m, step) ==
  [to |-> u, event |-> m.event, conversation_id |-> m.conversation_id, step |-> step,
   superseded |-> /\ callData[u] # NoCall
                  /\ m.conversation_id = callData[u].conversationId
                  /\ m.room_id # callData[u].roomId]

\* the events in flight with m taken from u's channel
Take(u, m) == [signals EXCEPT ![u] = @ (-) SetToBag({m})]

\* sig with m broadcast to calls:<to>
Put(sig, to, m) == [sig EXCEPT ![to] = @ (+) SetToBag({m})]

\* `supabase.channel(`calls:${to}`).subscribe(callback)`: b with the transient
\* channel on which m is to be sent, its callback pending
Subscribing(b, to, m) == b (+) SetToBag({[kind |-> "subscribe", data |-> [to |-> to, msg |-> m]]})

InFlight == BagCardinality(signals["A"]) + BagCardinality(signals["B"])
PendingCalls == BagCardinality(callTasks["A"]) + BagCardinality(callTasks["B"])

\* crypto.randomUUID(): an identifier that was never returned before
UUIDs == << "u1", "u2", "u3" >>

randomUUID == UUIDs[nextUUID]

\* connectedAt once callState of u is st
Reached(u, st) ==
  [connectedAt EXCEPT ![u] = IF st = "connected" /\ callState[u] # "connected" THEN now ELSE @]

\* a subscription effect with dependencies [userId, callState, callData]: every
\* commit that changes one of them removes the channel and creates a new one
InboxEffect_DependsOnCall(u) ==
  [inboxChannel EXCEPT ![u] = [created |-> @.created + 1, removed |-> @.removed + 1]]

\* the subscription effect after a commit of callState / callData: its
\* dependencies are [userId], it does not run again
InboxEffect(u) == inboxChannel

\* startRinging_Pattern(): `if (ringIntervalRef.current) return`, else the
\* interval is set
startRinging_Pattern(u) == [ringIntervalRef EXCEPT ![u] = TRUE]

\* stopRinging_Pattern(): the interval is cleared, the ref is null
stopRinging_Pattern(u) == [ringIntervalRef EXCEPT ![u] = FALSE]

\* setCallState / setCallData in a click handler: the render and the effects
\* that sync the refs are flushed before the handler's event ends
CommitSync(u, st, d) ==
  /\ callState' = [callState EXCEPT ![u] = st]
  /\ callData' = [callData EXCEPT ![u] = d]
  /\ callStateRef' = [callStateRef EXCEPT ![u] = st]
  /\ callDataRef' = [callDataRef EXCEPT ![u] = d]
  /\ connectedAt' = Reached(u, st)
  /\ inboxChannel' = InboxEffect(u)

\* setCallState / setCallData in a channel handler or after an await: the
\* effects of the previous commit run before this render, those of this
\* commit run later (SyncRefs)
Commit(u, st, d) ==
  /\ callState' = [callState EXCEPT ![u] = st]
  /\ callData' = [callData EXCEPT ![u] = d]
  /\ callStateRef' = [callStateRef EXCEPT ![u] = callState[u]]
  /\ callDataRef' = [callDataRef EXCEPT ![u] = callData[u]]
  /\ connectedAt' = Reached(u, st)
  /\ inboxChannel' = InboxEffect(u)

\* the effects `callStateRef.current = callState`, `callDataRef.current = callData`
SyncRefs(u) ==
  /\ << callStateRef[u], callDataRef[u] >> # << callState[u], callData[u] >>
  /\ callStateRef' = [callStateRef EXCEPT ![u] = callState[u]]
  /\ callDataRef' = [callDataRef EXCEPT ![u] = callData[u]]
  /\ lastSignal' = NoSignal
  /\ logged' = NoLog
  /\ UNCHANGED << callState, callData, callTasks, signals, connectedAt, inboxChannel, ringIntervalRef, startTimeRef, now,
                  nextUUID, voiceVars, videoVars >>

\* the passive effects of a commit run within the frame of that commit: no
\* click and no step of another client fits in between
EffectsFlushed(U) == \A v \in U : callStateRef[v] = callState[v] /\ callDataRef[v] = callData[v]

\* the overlay's buttons exist while a call is shown; the chat's call button is
\* reachable while the overlay, a modal dialog, is not
OverlayShown(u) == callState[u] # "idle" /\ callData[u] # NoCall

\* ---------------------------------------------------------- event handlers
\* invite: `if (callStateRef.current !== 'idle') return`, then the profile fetch
InviteReceived(u, m) ==
  /\ m \in DOMAIN signals[u]
  /\ m.event = "invite"
  /\ signals' = Take(u, m)
  /\ callTasks' = IF callStateRef[u] # "idle" THEN callTasks
                  ELSE [callTasks EXCEPT ![u] = @ (+) SetToBag({[kind |-> "invite", data |->
                          [conversationId |-> m.conversation_id,
                           roomId |-> IF m.room_id # "none" THEN m.room_id
                                      ELSE m.conversation_id,
                           otherUser |-> m.sender, isInitiator |-> FALSE]]})]
  /\ lastSignal' = Handled(u, m, "arrive")
  /\ logged' = NoLog
  /\ UNCHANGED << callState, callData, callStateRef, callDataRef, connectedAt, inboxChannel, ringIntervalRef, startTimeRef,
                  now, nextUUID, voiceVars, videoVars >>

\* invite: the profile fetch resolved; `if (callerProfile)` the call is shown
ProfileFetched(u, t, found) ==
  /\ t \in DOMAIN callTasks[u]
  /\ t.kind = "invite"
  /\ callTasks' = [callTasks EXCEPT ![u] = @ (-) SetToBag({t})]
  /\ IF found THEN Commit(u, "incoming", t.data) /\ ringIntervalRef' = startRinging_Pattern(u)
     ELSE UNCHANGED << callState, callData, callStateRef, callDataRef, connectedAt, inboxChannel, ringIntervalRef >>
  /\ lastSignal' = [to |-> u, event |-> "invite",
                    conversation_id |-> t.data.conversationId, step |-> "resume",
                    superseded |-> FALSE]
  /\ logged' = NoLog
  /\ UNCHANGED << signals, startTimeRef, now, nextUUID, voiceVars, videoVars >>

\* the checks of the accept, reject, cancel and end handlers
Current(u, m) == callDataRef[u].conversationId = m.conversation_id

AcceptMatches(u, m) == callStateRef[u] = "outgoing" /\ Current(u, m)
RejectMatches(u, m) == callStateRef[u] = "outgoing" /\ Current(u, m)
CancelMatches(u, m) == callStateRef[u] = "incoming" /\ Current(u, m)
EndMatches(u, m)    == Current(u, m)

\* accept, reject, cancel, end
ResponseReceived(u, m) ==
  /\ m \in DOMAIN signals[u]
  /\ m.event \in {"accept", "reject", "cancel", "end"}
  /\ signals' = Take(u, m)
  /\ CASE m.event = "accept" /\ AcceptMatches(u, m) -> Commit(u, "connected", callData[u])
       [] m.event = "reject" /\ RejectMatches(u, m) -> Commit(u, "idle", NoCall)
       [] m.event = "cancel" /\ CancelMatches(u, m) -> Commit(u, "idle", NoCall)
       [] m.event = "end" /\ EndMatches(u, m)       -> Commit(u, "idle", NoCall)
       [] OTHER -> UNCHANGED << callState, callData, callStateRef, callDataRef, connectedAt, inboxChannel >>
  /\ ringIntervalRef' = IF \/ m.event = "accept" /\ AcceptMatches(u, m)
                           \/ m.event = "reject" /\ RejectMatches(u, m)
                           \/ m.event = "cancel" /\ CancelMatches(u, m)
                           \/ m.event = "end" /\ EndMatches(u, m)
                        THEN stopRinging_Pattern(u) ELSE ringIntervalRef
  /\ startTimeRef' = IF m.event = "accept" /\ AcceptMatches(u, m)
                     THEN [startTimeRef EXCEPT ![u] = now] ELSE startTimeRef
  /\ lastSignal' = Handled(u, m, "arrive")
  /\ logged' = NoLog
  /\ UNCHANGED << callTasks, now, nextUUID, voiceVars, videoVars >>

\* ----------------------------------------------------------- user actions
\* the chat's call button: initiateCall(conversationId, targetUser)
initiateCall(u, c) ==
  /\ ~OverlayShown(u)
  /\ CommitSync(u, "outgoing",
                [conversationId |-> c, roomId |-> randomUUID, otherUser |-> Other(u),
                 isInitiator |-> TRUE])
  /\ ringIntervalRef' = startRinging_Pattern(u)
  /\ nextUUID' = nextUUID + 1
  /\ callTasks' = [callTasks EXCEPT ![u] =
                     Subscribing(@, Other(u), Signal("invite", c, u, randomUUID))]
  /\ lastSignal' = NoSignal
  /\ logged' = NoLog
  /\ UNCHANGED << signals, startTimeRef, now, voiceVars, videoVars >>

\* the overlay's accept button
acceptCall(u) ==
  /\ OverlayShown(u) /\ callState[u] = "incoming"
  /\ CommitSync(u, "connected", callData[u])
  /\ ringIntervalRef' = stopRinging_Pattern(u)
  /\ startTimeRef' = [startTimeRef EXCEPT ![u] = now]
  /\ callTasks' = [callTasks EXCEPT ![u] =
                     Subscribing(@, callData[u].otherUser,
                                 Signal("accept", callData[u].conversationId, u, callData[u].roomId))]
  /\ lastSignal' = NoSignal
  /\ logged' = NoLog
  /\ UNCHANGED << signals, now, nextUUID, voiceVars, videoVars >>

\* Number.prototype.toString of a natural number: its decimal digits
RECURSIVE toString(_)
toString(n) ==
  LET Digit(d) == << "0", "1", "2", "3", "4", "5", "6", "7", "8", "9" >>[d + 1]
  IN IF n < 10 THEN << Digit(n) >> ELSE toString(n \div 10) \o << Digit(n % 10) >>

\* String.prototype.padStart(len, ch)
RECURSIVE padStart(_, _, _)
padStart(str, len, ch) == IF Len(str) >= len THEN str ELSE padStart(<< ch >> \o str, len, ch)

\* a durationText whose seconds are not padded
durationText_Unpadded(ms) ==
  IF ms > 0
  THEN toString(ms \div 60000) \o << ":" >> \o toString((ms % 60000) \div 1000)
  ELSE << >>

\* logCall: durationText of a duration of ms / 1000 seconds;
\* Math.floor(duration / 60) and Math.floor(duration % 60)
durationText(ms) ==
  IF ms > 0
  THEN toString(ms \div 60000) \o << ":" >> \o padStart(toString((ms % 60000) \div 1000), 2, "0")
  ELSE << >>

\* logCall(status, duration): the row it inserts into messages
logCall(u, status, ms) ==
  IF callDataRef[u] = NoCall THEN NoLog
  ELSE [conversation_id |-> callDataRef[u].conversationId, sender_id |-> u, status |-> status,
        duration |-> IF status = "ended" THEN durationText(ms) ELSE << >>]

\* endCall: `(Date.now() - startTimeRef.current) / 1000` if connected, in milliseconds
Elapsed(u) ==
  IF callState[u] = "connected" /\ startTimeRef[u] # 0 THEN now - startTimeRef[u] ELSE 0

\* declineCall, cancelCall, endCall up to the await in logCall, which inserts
\* row: stopRinging_Pattern() comes first; callData is the one of the render the button belongs to
StartLogCall(u, kind, shown, row) ==
  /\ OverlayShown(u) /\ callState[u] = shown
  /\ callTasks' = [callTasks EXCEPT ![u] = @ (+) SetToBag({[kind |-> kind, data |-> callData[u]]})]
  /\ lastSignal' = NoSignal
  /\ logged' = row
  /\ ringIntervalRef' = stopRinging_Pattern(u)
  /\ UNCHANGED << callState, callData, callStateRef, callDataRef, connectedAt, inboxChannel, startTimeRef,
                  signals, now, nextUUID, voiceVars, videoVars >>

declineCall(u) == StartLogCall(u, "reject", "incoming", logCall(u, "declined", 0))
cancelCall(u)  == StartLogCall(u, "cancel", "outgoing", logCall(u, "missed", 0))
endCall(u)     == StartLogCall(u, "end", "connected", logCall(u, "ended", Elapsed(u)))

\* a continuation that reads the conversation id from the callData of the
\* current render instead of the one its invocation closed over
LogCallDone_CurrentCall(u, t) ==
  /\ t \in DOMAIN callTasks[u]
  /\ t.kind \in {"reject", "cancel", "end"}
  /\ callTasks' = [callTasks EXCEPT ![u] =
                     Subscribing(@ (-) SetToBag({t}), t.data.otherUser,
                                 Signal(t.kind, callData[u].conversationId, u, t.data.roomId))]
  /\ Commit(u, "idle", NoCall)
  /\ UNCHANGED ringIntervalRef
  /\ startTimeRef' = IF t.kind = "end" THEN [startTimeRef EXCEPT ![u] = 0] ELSE startTimeRef
  /\ lastSignal' = NoSignal
  /\ logged' = NoLog
  /\ UNCHANGED << signals, now, nextUUID, voiceVars, videoVars >>

\* declineCall, cancelCall, endCall after logCall: the transient channel to the
\* other user is subscribed to, then setCallState('idle'), setCallData(null);
\* endCall clears startTimeRef
LogCallDone(u, t) ==
  /\ t \in DOMAIN callTasks[u]
  /\ t.kind \in {"reject", "cancel", "end"}
  /\ callTasks' = [callTasks EXCEPT ![u] =
                     Subscribing(@ (-) SetToBag({t}), t.data.otherUser,
                                 Signal(t.kind, t.data.conversationId, u, t.data.roomId))]
  /\ Commit(u, "idle", NoCall)
  /\ UNCHANGED ringIntervalRef
  /\ startTimeRef' = IF t.kind = "end" THEN [startTimeRef EXCEPT ![u] = 0] ELSE startTimeRef
  /\ lastSignal' = NoSignal
  /\ logged' = NoLog
  /\ UNCHANGED << signals, now, nextUUID, voiceVars, videoVars >>

\* the subscribe callback of a transient channel, status SUBSCRIBED:
\* channel.send of the one event, then supabase.removeChannel(channel)
ChannelSubscribed(u, t) ==
  /\ t \in DOMAIN callTasks[u]
  /\ t.kind \in {"subscribe", "held"}
  /\ callTasks' = [callTasks EXCEPT ![u] = @ (-) SetToBag({t})]
  /\ signals' = Put(signals, t.data.to, t.data.msg)
  /\ lastSignal' = NoSignal
  /\ logged' = NoLog
  /\ UNCHANGED << callState, callData, callStateRef, callDataRef, connectedAt, inboxChannel, ringIntervalRef, startTimeRef,
                  now, nextUUID, voiceVars, videoVars >>

\* the subscribe callback of a transient channel, status TIMED_OUT or
\* CHANNEL_ERROR: the callback does nothing, the client keeps the channel and
\* goes on trying to join it
ChannelFailed(u, t) ==
  /\ t \in DOMAIN callTasks[u]
  /\ t.kind = "subscribe"
  /\ callTasks' = [callTasks EXCEPT ![u] = (@ (-) SetToBag({t})) (+) SetToBag({[t EXCEPT !.kind = "held"]})]
  /\ lastSignal' = NoSignal
  /\ logged' = NoLog
  /\ UNCHANGED << callState, callData, callStateRef, callDataRef, connectedAt, inboxChannel, ringIntervalRef, startTimeRef,
                  signals, now, nextUUID, voiceVars, videoVars >>

\* dt milliseconds pass
Tick(dt) ==
  /\ now' = now + dt
  /\ lastSignal' = NoSignal
  /\ logged' = NoLog
  /\ UNCHANGED << callState, callData, callStateRef, callDataRef, callTasks, signals,
                  startTimeRef, nextUUID, connectedAt, inboxChannel, ringIntervalRef, voiceVars, videoVars >>

InitCallSystem ==
  /\ callState = [u \in CallUsers |-> "idle"]
  /\ callData = [u \in CallUsers |-> NoCall]
  /\ callStateRef = [u \in CallUsers |-> "idle"]
  /\ callDataRef = [u \in CallUsers |-> NoCall]
  /\ callTasks = [u \in CallUsers |-> EmptyBag]
  /\ signals = [u \in CallUsers |-> EmptyBag]
  /\ lastSignal = NoSignal
  /\ startTimeRef = [u \in CallUsers |-> 0]
  /\ now = Epoch
  /\ nextUUID = 1
  /\ logged = NoLog
  /\ connectedAt = [u \in CallUsers |-> 0]
  /\ inboxChannel = [u \in CallUsers |-> [created |-> 1, removed |-> 0]]
  /\ ringIntervalRef = [u \in CallUsers |-> FALSE]

\* a further event may be sent, a further continuation may be pending, a
\* further call may be started, further time may pass during a call. The
\* effects that sync the refs run in the frame of their commit, long before a
\* tick has passed
MaySignal == InFlight + PendingCalls < MaxSignals
MayAwait(u) == BagCardinality(callTasks[u]) < MaxCallTasks
MayCall(max) == nextUUID <= max
MayTick(dt, max) ==
  /\ \E u \in CallUsers : callState[u] = "connected"
  /\ \A u \in CallUsers : ~ENABLED SyncRefs(u)
  /\ now + dt <= Epoch + max

\* ---------------------------------------------------------------------------
\* useVideoCall: the hooks of the two users of one conversation
MaxVideoCalls  == 1   \* startCall invocations of a user
MaxVideoTasks  == 2   \* continuations and timeouts of a user pending at once
MaxVideoEvents == 2   \* broadcast events in flight to a user

\* the hook after its first render and its effects: every flag false, the refs
\* null but channelRef, which holds the channel initChannel() created in the
\* effect. open = the connections the hook created and nothing closed,
\* offering = those with a local offer set
NoVideoCall ==
  [inCall |-> FALSE, isCalling |-> FALSE, isReceivingCall |-> FALSE, callerId |-> "none",
   peerConnection |-> 0, localStreamRef |-> FALSE, channelRef |-> FALSE,
   open |-> {}, offering |-> {}, made |-> 0, started |-> 0]

InitVideoCall ==
  /\ video = [u \in CallUsers |-> [NoVideoCall EXCEPT !.channelRef = TRUE]]
  /\ videoTasks = [u \in CallUsers |-> EmptyBag]
  /\ broadcasts = [u \in CallUsers |-> << >>]

\* channelRef.current?.send(ev) of u: broadcast {self: false} reaches the other
\* user's channel if there is one
VideoBroadcast(u, ev) ==
  IF video[u].channelRef /\ video[Other(u)].channelRef
  THEN [broadcasts EXCEPT ![Other(u)] = Append(@, [event |-> ev, sender |-> u])]
  ELSE broadcasts

\* createPeerConnection(stream): a new connection is stored in
\* peerConnection.current; the one it replaces is not touched
VideoCreatePeerConnection(h) ==
  [h EXCEPT !.peerConnection = h.made + 1, !.made = h.made + 1, !.open = h.open \cup {h.made + 1}]

\* cleanup() run by u in a step that finished the tasks done and left the
\* events sent in flight: the current connection is closed, the stream
\* stopped, the channel removed, the state reset. The operations pending on
\* the closed connection never settle, the events travelling to the removed
\* channel are lost
VideoCleanup(u, sent, done) ==
  /\ video' = [video EXCEPT ![u] =
                 [@ EXCEPT !.open = @ \ {video[u].peerConnection}, !.peerConnection = 0,
                           !.localStreamRef = FALSE, !.channelRef = FALSE,
                           !.inCall = FALSE, !.isCalling = FALSE, !.isReceivingCall = FALSE,
                           !.callerId = "none"]]
  /\ videoTasks' = [videoTasks EXCEPT ![u] =
                      Restrict(@ (-) done,
                               {t \in DOMAIN (@ (-) done) : t.pc = 0 \/ t.pc # video[u].peerConnection})]
  /\ broadcasts' = [sent EXCEPT ![u] = << >>]

\* startCall() up to `await getUserMedia`; the button is outside the call modal
VideoStartCall(u) ==
  /\ ~video[u].inCall /\ ~video[u].isCalling /\ ~video[u].isReceivingCall
  /\ video' = [video EXCEPT ![u].started = @ + 1]
  /\ videoTasks' = [videoTasks EXCEPT ![u] = @ (+) SetToBag({[kind |-> "startCall", pc |-> 0]})]
  /\ UNCHANGED << broadcasts, voiceVars, callVars >>

\* acceptCall() up to `await getUserMedia`: `if (!state.callerId) return`; the
\* button is shown while `isReceivingCall && !inCall`
VideoAcceptCall(u) ==
  /\ video[u].isReceivingCall /\ ~video[u].inCall
  /\ video[u].callerId # "none"
  /\ videoTasks' = [videoTasks EXCEPT ![u] = @ (+) SetToBag({[kind |-> "acceptCall", pc |-> 0]})]
  /\ UNCHANGED << video, broadcasts, voiceVars, callVars >>

\* getUserMedia of startCall or acceptCall settled. startCall: the stream is
\* stored, isCalling set, `if (!channelRef.current) { initChannel(); await 500 ms }`,
\* else createPeerConnection and `await pc.createOffer()`; on rejection
\* cleanup(). acceptCall: the stream is stored; on rejection rejectCall()
VideoMediaSettled(u, t, ok) ==
  /\ t \in DOMAIN videoTasks[u]
  /\ t.kind \in {"startCall", "acceptCall"}
  /\ CASE t.kind = "startCall" /\ ok /\ ~video[u].channelRef ->
            /\ video' = [video EXCEPT ![u] = [@ EXCEPT !.localStreamRef = TRUE, !.isCalling = TRUE,
                                                       !.channelRef = TRUE]]
            /\ videoTasks' = [videoTasks EXCEPT ![u] =
                                (@ (-) SetToBag({t})) (+) SetToBag({[kind |-> "wait", pc |-> 0]})]
            /\ UNCHANGED broadcasts
       [] t.kind = "startCall" /\ ok /\ video[u].channelRef ->
            /\ video' = [video EXCEPT ![u] = VideoCreatePeerConnection(
                                               [@ EXCEPT !.localStreamRef = TRUE, !.isCalling = TRUE])]
            /\ videoTasks' = [videoTasks EXCEPT ![u] =
                                (@ (-) SetToBag({t})) (+)
                                SetToBag({[kind |-> "offer", pc |-> video[u].made + 1]})]
            /\ UNCHANGED broadcasts
       [] t.kind = "startCall" /\ ~ok ->
            VideoCleanup(u, broadcasts, SetToBag({t}))
       [] t.kind = "acceptCall" /\ ok ->
            /\ video' = [video EXCEPT ![u].localStreamRef = TRUE]
            /\ videoTasks' = [videoTasks EXCEPT ![u] = @ (-) SetToBag({t})]
            /\ UNCHANGED broadcasts
       [] t.kind = "acceptCall" /\ ~ok ->
            /\ video' = [video EXCEPT ![u] = [@ EXCEPT !.isReceivingCall = FALSE, !.callerId = "none"]]
            /\ videoTasks' = [videoTasks EXCEPT ![u] = @ (-) SetToBag({t})]
            /\ broadcasts' = VideoBroadcast(u, "call-rejected")
  /\ UNCHANGED << voiceVars, callVars >>

\* startCall after the 500 ms it waits for the subscription:
\* createPeerConnection(stream), `await pc.createOffer()`
VideoWaited(u, t) ==
  /\ t \in DOMAIN videoTasks[u]
  /\ t.kind = "wait"
  /\ video' = [video EXCEPT ![u] = VideoCreatePeerConnection(@)]
  /\ videoTasks' = [videoTasks EXCEPT ![u] =
                      (@ (-) SetToBag({t})) (+) SetToBag({[kind |-> "offer", pc |-> video[u].made + 1]})]
  /\ UNCHANGED << broadcasts, voiceVars, callVars >>

\* startCall after createOffer and setLocalDescription: call-request is sent,
\* the offer is sent from a timeout of 100 ms
VideoOfferCreated(u, t) ==
  /\ t \in DOMAIN videoTasks[u]
  /\ t.kind = "offer"
  /\ video' = [video EXCEPT ![u].offering = @ \cup {t.pc}]
  /\ videoTasks' = [videoTasks EXCEPT ![u] =
                      (@ (-) SetToBag({t})) (+) SetToBag({[kind |-> "send", pc |-> 0]})]
  /\ broadcasts' = VideoBroadcast(u, "call-request")
  /\ UNCHANGED << voiceVars, callVars >>

\* the timeout of startCall fires: `channelRef.current?.send` of the offer
VideoOfferTimeout(u, t) ==
  /\ t \in DOMAIN videoTasks[u]
  /\ t.kind = "send"
  /\ videoTasks' = [videoTasks EXCEPT ![u] = @ (-) SetToBag({t})]
  /\ broadcasts' = VideoBroadcast(u, "offer")
  /\ UNCHANGED << video, voiceVars, callVars >>

\* the handlers of the channel of u. They close over the state of the render
\* that created the channel, in which inCall and isCalling are false: the
\* test `!state.inCall && !state.isCalling` of call-request always passes.
\* ice-candidate events touch none of the fields modelled and are left out
VideoReceive(u) ==
  LET m == Head(broadcasts[u]) IN
  /\ broadcasts[u] # << >>
  /\ CASE m.event = "call-request" ->
            /\ video' = [video EXCEPT ![u] = [@ EXCEPT !.isReceivingCall = TRUE, !.callerId = m.sender]]
            /\ broadcasts' = [broadcasts EXCEPT ![u] = Tail(@)]
            /\ UNCHANGED videoTasks
       [] m.event = "call-accepted" ->
            /\ videoTasks' = IF video[u].peerConnection # 0
                             THEN [videoTasks EXCEPT ![u] = @ (+) SetToBag({[kind |-> "accepted",
                                                              pc |-> video[u].peerConnection]})]
                             ELSE videoTasks
            /\ broadcasts' = [broadcasts EXCEPT ![u] = Tail(@)]
            /\ UNCHANGED video
       [] m.event \in {"call-rejected", "call-ended"} ->
            VideoCleanup(u, broadcasts, EmptyBag)
       [] m.event = "offer" ->
            /\ video' = IF video[u].localStreamRef
                        THEN [video EXCEPT ![u] = VideoCreatePeerConnection(@)]
                        ELSE video
            /\ videoTasks' = IF video[u].localStreamRef
                             THEN [videoTasks EXCEPT ![u] = @ (+) SetToBag({[kind |-> "answer",
                                                              pc |-> video[u].made + 1]})]
                             ELSE videoTasks
            /\ broadcasts' = [broadcasts EXCEPT ![u] = Tail(@)]
  /\ UNCHANGED << voiceVars, callVars >>

\* call-accepted after `await setRemoteDescription(answer)`, which rejects on
\* a connection that has no local offer: inCall true, isCalling false
VideoRemoteSet(u, t) ==
  /\ t \in DOMAIN videoTasks[u]
  /\ t.kind = "accepted"
  /\ videoTasks' = [videoTasks EXCEPT ![u] = @ (-) SetToBag({t})]
  /\ video' = IF t.pc \in video[u].offering
              THEN [video EXCEPT ![u] = [@ EXCEPT !.inCall = TRUE, !.isCalling = FALSE,
                                                  !.offering = @ \ {t.pc}]]
              ELSE video
  /\ UNCHANGED << broadcasts, voiceVars, callVars >>

\* offer after setRemoteDescription, createAnswer and setLocalDescription:
\* call-accepted is sent; inCall true, isReceivingCall false, callerId null
VideoAnswered(u, t) ==
  /\ t \in DOMAIN videoTasks[u]
  /\ t.kind = "answer"
  /\ videoTasks' = [videoTasks EXCEPT ![u] = @ (-) SetToBag({t})]
  /\ video' = [video EXCEPT ![u] = [@ EXCEPT !.inCall = TRUE, !.isReceivingCall = FALSE,
                                             !.callerId = "none"]]
  /\ broadcasts' = VideoBroadcast(u, "call-accepted")
  /\ UNCHANGED << voiceVars, callVars >>

\* rejectCall(), shown while `isReceivingCall && !inCall`
VideoRejectCall(u) ==
  /\ video[u].isReceivingCall /\ ~video[u].inCall
  /\ video' = [video EXCEPT ![u] = [@ EXCEPT !.isReceivingCall = FALSE, !.callerId = "none"]]
  /\ broadcasts' = VideoBroadcast(u, "call-rejected")
  /\ UNCHANGED << videoTasks, voiceVars, callVars >>

\* endCall(), shown while calling or in a call
VideoEndCall(u) ==
  /\ video[u].inCall \/ (video[u].isCalling /\ ~video[u].isReceivingCall)
  /\ VideoCleanup(u, VideoBroadcast(u, "call-ended"), EmptyBag)
  /\ UNCHANGED << voiceVars, callVars >>

\* ------------------------------------------------------------ specifications
\* one session of user A; the other members of the room are the environment
InitRoom == InitVoice({1}) /\ InitCallSystem /\ InitVideoCall

NextRoom ==
  \E s \in Sessions :
    \/ SessionStep(s)
    \/ MayJoin(s, MaxJoins) /\ \E r \in Rooms : handleJoin(s, r)
    \/ s \in mounted /\ MayClose(s, MaxTimers) /\ Closed(s)
    \/ \E id \in DOMAIN conns[s] : OnIceCandidate(s, id, MaxLocalCand)
    \/ \E t \in DOMAIN tasks[s] : Drained(s, t)
    \/ \E m \in EnvMsgs(s) : MayHandle(s, m, MaxTasks, MaxCand) /\ EnvEvent(s, m)

SpecRoom == InitRoom /\ [][NextRoom]_vars

\* the same session under bounds that let the channel close repeatedly
NextReconnect ==
  \E s \in Sessions :
    \/ SessionStep(s)
    \/ MayJoin(s, MaxJoins) /\ \E r \in Rooms : handleJoin(s, r)
    \/ s \in mounted /\ MayClose(s, RcTimers) /\ Closed(s)
    \/ \E id \in DOMAIN conns[s] : OnIceCandidate(s, id, MaxLocalCand)
    \/ \E t \in DOMAIN tasks[s] : Drained(s, t)
    \/ \E m \in EnvMsgs(s) : MayHandle(s, m, MaxTasks, RcCand) /\ EnvEvent(s, m)

SpecReconnect == InitRoom /\ [][NextReconnect]_vars

\* the same session with the input device switched while it is in the room
NextDevice ==
  \E s \in Sessions :
    \/ SessionStep(s)
    \/ MayJoin(s, MaxJoins) /\ \E r \in Rooms : handleJoin(s, r)
    \/ MaySwitch(s, DevTimers) /\ \E r \in Rooms : switchDevice(s, r)
    \/ \E tm \in timers[s] : RejoinFire(s, tm)
    \/ \E id \in DOMAIN conns[s], st \in {"disconnected", "failed"} :
         OnConnectionStateChange(s, id, st)
    \/ s \in mounted /\ MayClose(s, DevTimers) /\ Closed(s)
    \/ \E t \in DOMAIN tasks[s] : Drained(s, t)
    \/ \E m \in EnvMsgs(s) : MayHandle(s, m, MaxTasks, DevCand) /\ EnvEvent(s, m)

SpecDevice == InitRoom /\ [][NextDevice]_vars

\* a room of two sessions, of user A and of user B, negotiating their
\* connections; the exchange of ICE candidates, which touches neither the
\* registry nor the offers, is left to the open session
InitMesh == InitVoice({1, 2}) /\ InitCallSystem /\ InitVideoCall

NextMesh ==
  \E s \in Sessions :
    \/ SessionStep(s)
    \/ MayJoin(s, MaxMeshJoins) /\ \E r \in Rooms : handleJoin(s, r)
    \/ s \in mounted /\ MayClose(s, MaxMeshTimers) /\ Closed(s)
    \/ \E m \in DOMAIN inbox[s] : Deliver(s, m)

SpecMesh == InitMesh /\ [][NextMesh]_vars

\* the call systems of two users, no voice room mounted
InitCall == InitVoice({}) /\ InitCallSystem /\ InitVideoCall

NextCall ==
  \E u \in CallUsers :
    \/ EffectsFlushed(CallUsers \ {u}) /\ SyncRefs(u)
    \/ EffectsFlushed(CallUsers \ {u}) /\ \E m \in DOMAIN signals[u] : MayAwait(u) /\ InviteReceived(u, m)
    \/ EffectsFlushed(CallUsers \ {u}) /\ \E t \in DOMAIN callTasks[u], found \in BOOLEAN : ProfileFetched(u, t, found)
    \/ EffectsFlushed(CallUsers \ {u}) /\ \E m \in DOMAIN signals[u] : ResponseReceived(u, m)
    \/ \E c \in Convs : EffectsFlushed(CallUsers) /\ MaySignal /\ MayCall(MaxCalls) /\ initiateCall(u, c)
    \/ EffectsFlushed(CallUsers) /\ MaySignal /\ acceptCall(u)
    \/ EffectsFlushed(CallUsers) /\ MaySignal /\ MayAwait(u) /\ declineCall(u)
    \/ EffectsFlushed(CallUsers) /\ MaySignal /\ MayAwait(u) /\ cancelCall(u)
    \/ EffectsFlushed(CallUsers) /\ MaySignal /\ MayAwait(u) /\ endCall(u)
    \/ EffectsFlushed(CallUsers \ {u}) /\ \E t \in DOMAIN callTasks[u] : LogCallDone(u, t)
    \/ EffectsFlushed(CallUsers \ {u}) /\ \E t \in DOMAIN callTasks[u] : ChannelSubscribed(u, t)

SpecCall == InitCall /\ [][NextCall]_vars

\* the same call systems with time passing while a call is connected
TickSizes == {5000, 60000}

NextLog ==
  \/ \E u \in CallUsers :
       \/ EffectsFlushed(CallUsers \ {u}) /\ SyncRefs(u)
       \/ EffectsFlushed(CallUsers \ {u}) /\ \E m \in DOMAIN signals[u] : MayAwait(u) /\ InviteReceived(u, m)
       \/ EffectsFlushed(CallUsers \ {u}) /\ \E t \in DOMAIN callTasks[u], found \in BOOLEAN : ProfileFetched(u, t, found)
       \/ EffectsFlushed(CallUsers \ {u}) /\ \E m \in DOMAIN signals[u] : ResponseReceived(u, m)
       \/ \E c \in Convs : EffectsFlushed(CallUsers) /\ MaySignal /\ MayCall(MaxLogCalls) /\ initiateCall(u, c)
       \/ EffectsFlushed(CallUsers) /\ MaySignal /\ acceptCall(u)
       \/ EffectsFlushed(CallUsers) /\ MaySignal /\ MayAwait(u) /\ declineCall(u)
       \/ EffectsFlushed(CallUsers) /\ MaySignal /\ MayAwait(u) /\ cancelCall(u)
       \/ EffectsFlushed(CallUsers) /\ MaySignal /\ MayAwait(u) /\ endCall(u)
       \/ EffectsFlushed(CallUsers \ {u}) /\ \E t \in DOMAIN callTasks[u] : LogCallDone(u, t)
       \/ EffectsFlushed(CallUsers \ {u}) /\ \E t \in DOMAIN callTasks[u] : ChannelSubscribed(u, t)
  \/ \E dt \in TickSizes : MayTick(dt, MaxElapsed) /\ Tick(dt)

SpecLog == InitCall /\ [][NextLog]_vars

\* ===================================================================== claims
OpenConn(s, p) == peerConnections[s][p] # 0 /\ peerConnections[s][p] \in DOMAIN conns[s]

\* no offer / answer handler of s is setting p's remote description or draining p's queue
NoDrainPending(s, p) ==
  \A t \in DOMAIN tasks[s] :
    ~(t.peer = p /\ t.kind \in {"offer", "answer"} /\ t.at \in {"setRemote", "drain"})

\* C1: once the offer or answer handler has set P's remote description and its
\* drain has run, every candidate that was queued for P has been applied to P's
\* connection, in the order of arrival, and P's queue is empty
C1_QueuedCandidatesApplied ==
  \A s \in mounted, p \in Users :
    (OpenConn(s, p) /\ conns[s][peerConnections[s][p]].remote /\ NoDrainPending(s, p))
      => /\ iceCandidatesQueue[s][p] = << >>
         /\ IsSubseq(queuedLog[s][p], conns[s][peerConnections[s][p]].applied)

\* two different candidates were queued before the remote description and drained
C1_Witness ==
  \E s \in mounted, p \in Users :
    /\ OpenConn(s, p) /\ conns[s][peerConnections[s][p]].remote /\ NoDrainPending(s, p)
    /\ Len(queuedLog[s][p]) = 2
    /\ queuedLog[s][p][1] # queuedLog[s][p][2]
    /\ conns[s][peerConnections[s][p]].applied = queuedLog[s][p]

\* every pending asynchronous step of the session has completed
Quiescent(s) == tasks[s] = EmptyBag /\ timers[s] = {}

Released(s) ==
  /\ DOMAIN conns[s] = {}
  /\ \A i \in 1..Len(streams[s]) : ~streams[s][i]
  /\ channel[s].st = "none"

\* C2: after leaveRoom, once every pending asynchronous step has completed, the
\* session has no open peer connection, no live local track and no channel
C2_LeaveReleasesEverything ==
  \A s \in mounted : (leftRoom[s] /\ Quiescent(s)) => Released(s)

\* C5 (assumption discharged): every event a session sends carries its own user
\* as sender and is never targeted at that user
OwnEventsWellFormed ==
  \A m \in out : m.sender \in {userId(s) : s \in mounted} /\ m.target # m.sender

NegotiationState == << peerConnections, conns, iceCandidatesQueue, participants, tasks >>

\* C5: handling an event whose sender is the session's own user changes no
\* connection, queue or Participant entry, starts no handler and sends no event
C5_OwnEventsIgnored ==
  /\ []OwnEventsWellFormed
  /\ [][lastRecv'.echo => (UNCHANGED NegotiationState /\ out' = {})]_vars

\* an event of the own user was handled while the session holds a connection
C5_Witness ==
  /\ lastRecv.echo
  /\ \E s \in mounted : DOMAIN conns[s] # {} /\ channel[s].stream # 0

\* C6: handling an offer, answer or ice-candidate targeted at another user
\* changes no connection, queue or Participant entry of the session and sends
\* no event
C6_ForeignTargetIgnored ==
  [][lastRecv'.foreign => (UNCHANGED NegotiationState /\ out' = {})]_vars

\* an event of another user targeted at a third user was handled while the
\* session holds a connection to the sender
C6_Witness ==
  /\ lastRecv.foreign /\ ~lastRecv.echo
  /\ \E s \in mounted : OpenConn(s, "B") /\ channel[s].stream # 0

\* C7: the registry holds one entry per peer, every open native connection is
\* the registered connection of its peer, and every handler works on the
\* registered connection of its peer
C7_OneConnectionPerPeer ==
  \A s \in mounted :
    /\ \A id \in DOMAIN conns[s] : peerConnections[s][conns[s][id].peer] = id
    /\ \A p \in Users : peerConnections[s][p] # 0 => OpenConn(s, p)
    /\ \A t \in DOMAIN tasks[s] :
         t.kind \in {"join-request", "offer", "answer"} => t.pc = peerConnections[s][t.peer]

\* createPeerConnection was called for a peer that already had a connection:
\* a handler has just started on a connection that was negotiated before
C7_Witness ==
  \E s \in mounted : \E t \in DOMAIN tasks[s] :
    /\ t.kind \in {"join-request", "offer"} /\ t.at \in {"createOffer", "setRemote"}
    /\ OpenConn(s, t.peer)
    /\ conns[s][t.pc].local

\* C4: the k-th consecutive CLOSED signal of a room (k counted from the last
\* SUBSCRIBED) schedules one reconnect attempt 1500 * k ms later for k = 1, 2, 3
\* and nothing from the 4th on
C4_ThreeAttemptsLinearBackoff ==
  [][\A s \in Sessions, r \in Rooms :
       closedSinceSub'[s][r] = closedSinceSub[s][r] + 1 =>
         IF closedSinceSub[s][r] < 3
         THEN \E tm \in timers'[s] \ timers[s] :
                /\ timers'[s] = timers[s] \cup {tm}
                /\ tm.room = r
                /\ tm.delay = 1500 * closedSinceSub'[s][r]
         ELSE timers'[s] = timers[s] /\ reconnectAttempts'[s][r] = 3
    ]_vars

\* three attempts were made and fired, and a 4th closure scheduled nothing
C4_Witness ==
  \E s \in mounted, r \in Rooms :
    /\ closedSinceSub[s][r] = 4
    /\ reconnectAttempts[s][r] = 3
    /\ timers[s] = {}
    /\ nextTimer[s] = 4
    /\ channel[s].st = "closed"

C9_NoGlare ==
  \A p \in Users, q \in Users : ~(<<p, q>> \in offered /\ <<q, p>> \in offered)

\* C3: while callState is non-idle no step of an invite handler, be it the
\* arrival of the invite or the resumption after the profile fetch, changes
\* callState or callData
C3_InviteLeavesLiveCall ==
  [][\A u \in CallUsers :
       (lastSignal'.to = u /\ lastSignal'.event = "invite" /\ callState[u] # "idle")
         => (callState'[u] = callState[u] /\ callData'[u] = callData[u])
    ]_vars

\* C10: an accept, reject, cancel or end event of a conversation other than
\* the one of the current call changes neither callState nor callData
C10_OtherConversationIgnored ==
  [][\A u \in CallUsers :
       (/\ lastSignal'.to = u
        /\ lastSignal'.event \in {"accept", "reject", "cancel", "end"}
        /\ callData[u] # NoCall
        /\ lastSignal'.conversation_id # callData[u].conversationId)
         => (callState'[u] = callState[u] /\ callData'[u] = callData[u])
    ]_vars

\* C17: a step that handles a leave event from P ends with no peer connection,
\* no queued ICE candidate and no Participant entry for P
C17_LeaveForgetsPeer ==
  [][lastRecv'.event = "leave" =>
       LET s == lastRecv'.session
           p == lastRecv'.sender
       IN /\ peerConnections'[s][p] = 0
          /\ iceCandidatesQueue'[s][p] = << >>
          /\ p \notin participants'[s]
    ]_vars

\* C18: in every state the ICE candidate queue of peer P is non-empty only if
\* P has no registered connection or that connection has no remote description
C18_QueueOnlyWhileRemoteUnset ==
  \A s \in mounted, p \in Users :
    iceCandidatesQueue[s][p] # << >>
      => (peerConnections[s][p] = 0 \/ ~conns[s][peerConnections[s][p]].remote)

\* C19: a step that handles an answer from P targeted at the local user while
\* no connection is registered for P changes neither the registry, the
\* connections, the candidate queues, the Participant list nor the pending
\* handlers, and sends no event
C19_AnswerWithoutConnectionDiscarded ==
  [][(/\ lastRecv'.event = "answer"
      /\ ~lastRecv'.foreign
      /\ peerConnections[lastRecv'.session][lastRecv'.sender] = 0)
       => (UNCHANGED NegotiationState /\ out' = {} /\ toast' = {})
    ]_vars

\* an answer from B targeted at A was handled with no connection for B
C19_Witness ==
  /\ lastRecv.event = "answer" /\ lastRecv.sender = "B" /\ lastRecv.session = 1
  /\ ~lastRecv.foreign
  /\ peerConnections[1]["B"] = 0
  /\ channel[1].st = "subscribed"
  /\ iceCandidatesQueue[1]["B"] # << >>

\* a step of s in which a getUserMedia call of handleJoin settles without a stream
AcquisitionFailed(s) ==
  /\ Len(streams'[s]) = Len(streams[s])
  /\ \E t \in DOMAIN tasks[s] :
       /\ t.kind = "handleJoin" /\ t.at = "getUserMedia"
       /\ CopiesIn(t, tasks'[s]) < CopiesIn(t, tasks[s])

\* C20: the step in which getUserMedia of handleJoin fails subscribes no
\* channel, sends no event, creates no connection, leaves inAudioRoom as it was
\* (false for a session that was not in a room), shows a notice to the user and
\* starts no further acquisition and no timer
C20_FailedAcquisitionStaysOut ==
  [][\A s \in Sessions : AcquisitionFailed(s) =>
       /\ UNCHANGED << channel, inAudioRoom, localStreamRef, peerConnections, conns,
                       participants, timers, inbox >>
       /\ out' = {}
       /\ toast' # {}
       /\ \A t \in DOMAIN tasks'[s] : CopiesIn(t, tasks'[s]) <= CopiesIn(t, tasks[s])
    ]_vars

\* getUserMedia failed in a session that is in no room: it is still in none
C20_Witness ==
  /\ toast = {"Microphone Access Error"}
  /\ ~inAudioRoom[1]
  /\ channel[1] = NoChannel
  /\ tasks[1] = EmptyBag
  /\ conns[1] = << >>

\* a step of s in which a closure arrives after MaxReconnect attempts were made
ClosedAtCeiling(s) ==
  /\ channel[s].st \in {"joining", "joined", "subscribed"}
  /\ channel'[s].st = "closed"
  /\ reconnectAttempts[s][channel[s].room] >= MaxReconnect

\* C14: the step in which a closure arrives after 3 attempts shows a notice
\* to the user or changes the state the hook returns (inAudioRoom,
\* participants), and schedules no further attempt
C14_ExhaustionSurfaced ==
  [][\A s \in Sessions : ClosedAtCeiling(s) =>
       /\ toast' # {} \/ inAudioRoom'[s] # inAudioRoom[s] \/ participants'[s] # participants[s]
       /\ timers' = timers
    ]_vars

\* C13: a timer that was pending when leaveRoom or cleanup ran never fires
C13_NoTimerFiresAfterTeardown ==
  [][\A s \in Sessions : \A tm \in timers[s] : tm.stale => tm \in timers'[s]]_vars

\* C11: an accept, reject, cancel or end event of an earlier call of the
\* conversation of the current call, a call with another roomId, changes
\* neither callState nor callData
C11_SupersededCallIgnored ==
  [][\A u \in CallUsers :
       (/\ lastSignal'.to = u
        /\ lastSignal'.event \in {"accept", "reject", "cancel", "end"}
        /\ lastSignal'.superseded)
         => (callState'[u] = callState[u] /\ callData'[u] = callData[u])
    ]_vars

\* the number a string of decimal digits denotes
RECURSIVE Val(_)
Val(str) ==
  IF str = << >> THEN 0
  ELSE 10 * Val(SubSeq(str, 1, Len(str) - 1))
        + (CHOOSE d \in 0..9 : toString(d) = << str[Len(str)] >>)

\* C12: endCall invoked a whole number d > 0 of seconds after the call became
\* connected logs a duration that reads floor(d / 60) in decimal, a colon and
\* d mod 60 in two digits; 125 seconds are logged as "2:05"
C12_DurationText ==
  [][\A u \in CallUsers :
       (/\ logged'.sender_id = u /\ logged'.status = "ended"
        /\ callState[u] = "connected"
        /\ now > connectedAt[u]
        /\ (now - connectedAt[u]) % 1000 = 0)
         => LET d   == (now - connectedAt[u]) \div 1000
                txt == logged'.duration
                n   == Len(txt)
            IN /\ n >= 4
               /\ txt[n - 2] = ":"
               /\ \A i \in (1..n) \ {n - 2} : txt[i] \in {toString(k)[1] : k \in 0..9}
               /\ Val(SubSeq(txt, 1, n - 3)) = d \div 60
               /\ (n - 3 > 1 => txt[1] # "0")
               /\ Val(SubSeq(txt, n - 1, n)) = d % 60
               /\ (d = 125 => txt = << "2", ":", "0", "5" >>)
    ]_vars

\* endCall logged a call of 125 seconds
C12_Witness ==
  /\ logged.status = "ended"
  /\ logged.duration = << "2", ":", "0", "5" >>
  /\ \E u \in CallUsers : logged.sender_id = u /\ now - connectedAt[u] = 125000

\* the endCall continuations of u that await logCall
EndCallsPending(b) == BagCardinality(Restrict(b, {t \in DOMAIN b : t.kind = "end"}))

\* C15: while an endCall of u is pending, a further endCall of u changes
\* nothing: it logs nothing and starts no continuation that would send a
\* second end event
C15_SecondEndCallInert ==
  [][\A u \in CallUsers : EndCallsPending(callTasks[u]) >= 1 =>
       /\ EndCallsPending(callTasks'[u]) <= EndCallsPending(callTasks[u])
       /\ ~(logged'.sender_id = u /\ logged'.status = "ended")
    ]_vars

\* Index: useVoiceRoom(callData?.conversationId || null, user?.id), whose
\* activeRoomId is the room joinRoom() joins when callState becomes connected
activeRoomId(u) == callData[u].conversationId

\* initChannel: supabase.channel(`voice-${targetRoomId}`)
VoiceChannel(targetRoomId) == << "voice-", targetRoomId >>

\* C16: the voice channel a party of a connected call joins is the one derived
\* from the roomId of the call
C16_ChannelOfRoomId ==
  \A u \in CallUsers :
    callState[u] = "connected"
      => VoiceChannel(activeRoomId(u)) = VoiceChannel(callData[u].roomId)

\* C23: a Participant entry for P is held only while the registry holds an open
\* peer connection for P: entries are added by ontrack of a registered
\* connection and removed together with it, by leave and by cleanup
C23_ParticipantHasConnection ==
  \A s \in Sessions, p \in Users :
    p \in participants[s] => OpenConn(s, p)

\* a remote track has arrived from a peer: its Participant entry exists
C23_Witness ==
  \E s \in mounted, p \in Users :
    /\ p \in participants[s]
    /\ OpenConn(s, p)
    /\ conns[s][peerConnections[s][p]].remote

\* C28: every step in which the room channel of a session reports SUBSCRIBED
\* broadcasts exactly one event, a join-request whose sender is the session's
\* own user id, and leaves the reconnect attempt counter of that room at 0
C28_SubscribedAnnouncesAndResets ==
  [][\A s \in Sessions :
       (channel[s].st # "subscribed" /\ channel'[s].st = "subscribed") =>
         /\ out' = {Msg("join-request", userId(s), NoUser, 0)}
         /\ reconnectAttempts'[s][channel'[s].room] = 0
    ]_vars

\* the channel is subscribed again after closures that had raised the counter
C28_Witness ==
  \E s \in mounted :
    /\ channel[s].st = "subscribed"
    /\ nextTimer[s] >= 3
    /\ reconnectAttempts[s][channel[s].room] = 0
    /\ closedSinceSub[s][channel[s].room] = 0

\* ---------------------------------------------------------------------------
\* the session of user A in a room with two remote peers, B and C
\* the events the two remote peers can broadcast to the session of user A
RemoteMsgs ==
       {Msg(ev, p, NoUser, 0) : ev \in {"join-request", "leave"}, p \in Users \ {"A"}}
  \cup {Msg(ev, p, "A", 0) : ev \in {"offer", "answer"}, p \in Users \ {"A"}}
  \cup {Msg("ice-candidate", p, "A", c) : p \in Users \ {"A"}, c \in 1..FrameCand}

NextFrame ==
  \E s \in Sessions :
    \/ leaveRoom(s)
    \/ ServerJoined(s)
    \/ Subscribed(s)
    \/ MayJoin(s, MaxJoins) /\ \E r \in Rooms : handleJoin(s, r)
    \/ \E t \in DOMAIN tasks[s], suspended \in BOOLEAN : GotUserMedia(s, t, suspended)
    \/ \E t \in DOMAIN tasks[s] : AudioResumed(s, t)
    \/ \E t \in DOMAIN tasks[s] : OfferCreated(s, t)
    \/ \E t \in DOMAIN tasks[s] : OfferSent(s, t)
    \/ \E t \in DOMAIN tasks[s] : RemoteSet(s, t)
    \/ \E t \in DOMAIN tasks[s] : Drained(s, t)
    \/ \E t \in DOMAIN tasks[s] : AnswerCreated(s, t)
    \/ \E t \in DOMAIN tasks[s] : AnswerSent(s, t)
    \/ \E t \in DOMAIN tasks[s] : OperationRejected(s, t)
    \/ \E id \in DOMAIN conns[s] : OnTrack(s, id)
    \/ \E m \in RemoteMsgs : MayHandle(s, m, FrameTasks, FrameCand) /\ EnvEvent(s, m)

SpecFrame == InitRoom /\ [][NextFrame]_vars

\* C29: a step that handles an event sent by P, and every later step of that
\* handler (an awaited operation on P's connection resolving or rejecting),
\* leaves the registry entry, the connection, the candidate queue and the
\* Participant entry of every other peer Q as they were
C29_OnlySenderEntriesChange ==
  [][LET SameEntry(s, q) ==
           /\ peerConnections'[s][q] = peerConnections[s][q]
           /\ iceCandidatesQueue'[s][q] = iceCandidatesQueue[s][q]
           /\ (q \in participants'[s]) = (q \in participants[s])
           /\ \A id \in DOMAIN conns[s] :
                conns[s][id].peer = q => id \in DOMAIN conns'[s] /\ conns'[s][id] = conns[s][id]
     IN \A s \in Sessions :
          /\ (lastRecv'.handled /\ lastRecv'.session = s) =>
               \A q \in Users \ {lastRecv'.sender} : SameEntry(s, q)
          /\ (~lastRecv'.handled /\ channel'[s] = channel[s]) =>
               \A t \in DOMAIN tasks[s] :
                 (t.kind \in {"join-request", "offer", "answer"}
                    /\ CopiesIn(t, tasks'[s]) < CopiesIn(t, tasks[s]))
                   => \A q \in Users \ {t.peer} : SameEntry(s, q)
    ]_vars

\* P has left and its entries are gone while Q, whose track has arrived and
\* for whom a candidate is queued, is still held
C29_Witness ==
  \E s \in mounted, p \in Users, q \in Users :
    /\ p # q /\ userId(s) \notin {p, q}
    /\ lastRecv.handled /\ lastRecv.sender = p /\ lastRecv.event = "leave"
    /\ peerConnections[s][p] = 0
    /\ OpenConn(s, q)
    /\ \/ q \in participants[s]
       \/ iceCandidatesQueue[s][q] # << >>

\* C30: a candidate that pc.addIceCandidate rejects, passed at once or during
\* the drain, changes nothing but the log: the step leaves the registry and the
\* connections in place, ends no handler and shows no notice, and once the
\* drain of a queue that held such a candidate is over every queued candidate
\* has been passed to the connection in arrival order and the queue is empty
C30_CandidateFailureSwallowed ==
  /\ [](\A s \in mounted, p \in Users :
          (/\ OpenConn(s, p) /\ conns[s][peerConnections[s][p]].remote /\ NoDrainPending(s, p)
           /\ \E i \in DOMAIN queuedLog[s][p] : Throws(queuedLog[s][p][i]))
            => /\ iceCandidatesQueue[s][p] = << >>
               /\ IsSubseq(queuedLog[s][p], conns[s][peerConnections[s][p]].applied))
  /\ [][\A s \in Sessions :
          (\E id \in DOMAIN conns[s] :
             id \in DOMAIN conns'[s] /\ conns'[s][id].failed # conns[s][id].failed)
            => /\ peerConnections'[s] = peerConnections[s]
               /\ DOMAIN conns'[s] = DOMAIN conns[s]
               /\ \A t \in DOMAIN tasks[s] : t.kind = "offer" => \E u \in DOMAIN tasks'[s] : u.kind = "offer"
               /\ toast' = {}
               /\ out' = {}
               /\ inAudioRoom'[s] = inAudioRoom[s]
     ]_vars

\* the first queued candidate was rejected, the second was applied after it,
\* and the queue is empty
C30_Witness ==
  \E s \in mounted, p \in Users :
    /\ OpenConn(s, p) /\ conns[s][peerConnections[s][p]].remote /\ NoDrainPending(s, p)
    /\ Len(queuedLog[s][p]) = 2
    /\ Throws(queuedLog[s][p][1]) /\ ~Throws(queuedLog[s][p][2])
    /\ conns[s][peerConnections[s][p]].applied = queuedLog[s][p]
    /\ conns[s][peerConnections[s][p]].failed = << queuedLog[s][p][1] >>
    /\ iceCandidatesQueue[s][p] = << >>

\* ---------------------------------------------------------------------------
\* two sessions that join one room and stay: nobody leaves, every awaited
\* WebRTC operation resolves, every event sent is delivered
Progress(s) ==
  \/ ServerJoined(s)
  \/ Subscribed(s)
  \/ \E tm \in timers[s] : TimerFire(s, tm)
  \/ \E t \in DOMAIN tasks[s], suspended \in BOOLEAN : GotUserMedia(s, t, suspended)
  \/ \E t \in DOMAIN tasks[s] : AudioResumed(s, t)
  \/ \E t \in DOMAIN tasks[s] : OfferCreated(s, t)
  \/ \E t \in DOMAIN tasks[s] : OfferSent(s, t)
  \/ \E t \in DOMAIN tasks[s] : RemoteSet(s, t)
  \/ \E t \in DOMAIN tasks[s] : AnswerCreated(s, t)
  \/ \E t \in DOMAIN tasks[s] : AnswerSent(s, t)
  \/ \E id \in DOMAIN conns[s] : OnTrack(s, id)
  \/ \E m \in DOMAIN inbox[s] : Deliver(s, m)

NextStay ==
  \E s \in Sessions :
    \/ Progress(s)
    \/ MayJoin(s, MaxMeshJoins) /\ \E r \in Rooms : handleJoin(s, r)
    \/ s \in mounted /\ MayClose(s, MaxMeshTimers) /\ Closed(s)

\* the browser runs every timeout, promise reaction and message handler that
\* is due
SpecStay == InitMesh /\ [][NextStay]_vars /\ \A s \in Sessions : WF_vars(Progress(s))

NextSend ==
  \E u \in CallUsers :
    \/ EffectsFlushed(CallUsers \ {u}) /\ SyncRefs(u)
    \/ EffectsFlushed(CallUsers \ {u}) /\ \E m \in DOMAIN signals[u] : MayAwait(u) /\ InviteReceived(u, m)
    \/ EffectsFlushed(CallUsers \ {u}) /\ \E t \in DOMAIN callTasks[u], found \in BOOLEAN : ProfileFetched(u, t, found)
    \/ EffectsFlushed(CallUsers \ {u}) /\ \E m \in DOMAIN signals[u] : ResponseReceived(u, m)
    \/ \E c \in Convs : EffectsFlushed(CallUsers) /\ MaySignal /\ MayCall(MaxCalls) /\ initiateCall(u, c)
    \/ EffectsFlushed(CallUsers) /\ MaySignal /\ acceptCall(u)
    \/ EffectsFlushed(CallUsers) /\ MaySignal /\ MayAwait(u) /\ declineCall(u)
    \/ EffectsFlushed(CallUsers) /\ MaySignal /\ MayAwait(u) /\ cancelCall(u)
    \/ EffectsFlushed(CallUsers) /\ MaySignal /\ MayAwait(u) /\ endCall(u)
    \/ EffectsFlushed(CallUsers \ {u}) /\ \E t \in DOMAIN callTasks[u] : LogCallDone(u, t)
    \/ EffectsFlushed(CallUsers \ {u}) /\ \E t \in DOMAIN callTasks[u] : ChannelSubscribed(u, t)
    \/ EffectsFlushed(CallUsers \ {u}) /\ \E t \in DOMAIN callTasks[u] : ChannelFailed(u, t)

SpecSend == InitCall /\ [][NextSend]_vars

\* C21: no transient channel is still held by the client once its subscribe
\* callback has reported a status: on SUBSCRIBED the one event was sent and the
\* channel removed, on any other status the channel was removed as well
C21_NoSubscriptionLeftHeld ==
  \A u \in CallUsers : \A t \in DOMAIN callTasks[u] : t.kind # "held"

\* C24: every call event, waiting on its transient channel or in flight,
\* carries a conversation id, and it is the conversation id of its call:
\* wherever the roomId of that call is recorded (the callData of either user,
\* a pending continuation, another event) the conversation id is the same
C24_EventCarriesConversation ==
  LET Events == UNION {DOMAIN signals[u] : u \in CallUsers}
                \cup {t.data.msg : t \in {x \in UNION {DOMAIN callTasks[u] : u \in CallUsers} :
                                            x.kind \in {"subscribe", "held"}}}
      Calls  == {callData[u] : u \in CallUsers}
                \cup {t.data : t \in {x \in UNION {DOMAIN callTasks[u] : u \in CallUsers} :
                                        x.kind \notin {"subscribe", "held"}}}
  IN \A m \in Events :
       /\ m.event \in {"invite", "accept", "reject", "cancel", "end"}
       /\ m.conversation_id \in Convs
       /\ \A d \in Calls : d.roomId = m.room_id => d.conversationId = m.conversation_id
       /\ \A n \in Events : n.room_id = m.room_id => n.conversation_id = m.conversation_id

\* an end event of a call is in flight while its sender, whose endCall was
\* invoked for that call, already shows a call of another conversation
C24_Witness ==
  \E u \in CallUsers : \E m \in DOMAIN signals[u] :
    /\ m.event = "end"
    /\ callData[m.sender] # NoCall
    /\ callData[m.sender].conversationId # m.conversation_id

\* C25: callState changes only along idle -> outgoing, idle -> incoming,
\* outgoing -> connected, incoming -> connected, outgoing -> idle,
\* incoming -> idle and connected -> idle
C25_OnlyListedTransitions ==
  [][\A u \in CallUsers :
       callState'[u] # callState[u] =>
         << callState[u], callState'[u] >> \in
           {<< "idle", "outgoing" >>, << "idle", "incoming" >>,
            << "outgoing", "connected" >>, << "incoming", "connected" >>,
            << "outgoing", "idle" >>, << "incoming", "idle" >>, << "connected", "idle" >>}
    ]_vars

\* C22: each call system holds the one channel calls:<userId> that its
\* subscription effect created when it mounted; no step removes it or creates
\* another
C22_InboxSubscriptionKept ==
  \A u \in CallUsers : inboxChannel[u] = [created |-> 1, removed |-> 0]

\* a call was set up and ended by an end event: both users went through every
\* kind of transition with their first channel
C22_Witness ==
  /\ lastSignal.event = "end" /\ lastSignal.step = "arrive"
  /\ callState[lastSignal.to] = "idle"
  /\ connectedAt[lastSignal.to] # 0
  /\ \A u \in CallUsers : inboxChannel[u].created = 1

\* ---------------------------------------------------------------------------
\* the call systems with every due callback run: the event loop runs the
\* effects, the promise reactions, the subscribe callbacks of the transient
\* channels (which reach SUBSCRIBED) and the handlers of the delivered events
CallProgress(u) ==
  \/ SyncRefs(u)
  \/ \E m \in DOMAIN signals[u] : MayAwait(u) /\ InviteReceived(u, m)
  \/ \E t \in DOMAIN callTasks[u], found \in BOOLEAN : ProfileFetched(u, t, found)
  \/ \E m \in DOMAIN signals[u] : ResponseReceived(u, m)
  \/ \E t \in DOMAIN callTasks[u] : LogCallDone(u, t)
  \/ \E t \in DOMAIN callTasks[u] : ChannelSubscribed(u, t)

SpecCallFair == InitCall /\ [][NextCall]_vars /\ \A u \in CallUsers : WF_vars(CallProgress(u))

\* C26: whenever the accept of a callee waits on its transient channel while
\* the caller is outgoing in that call, nothing else being pending or in
\* flight, the caller's callState eventually becomes connected
C26_AcceptConnectsCaller ==
  \A a \in CallUsers :
    (\E t \in DOMAIN callTasks[a] :
       /\ t.kind = "subscribe" /\ t.data.msg.event = "accept"
       /\ PendingCalls = 1 /\ InFlight = 0
       /\ callState[a] = "connected"
       /\ callState[Other(a)] = "outgoing"
       /\ callData[Other(a)].conversationId = t.data.msg.conversation_id
       /\ callData[Other(a)].roomId = t.data.msg.room_id)
      ~> (callState[Other(a)] = "connected")

\* C31: a step in which a peer connection becomes failed or disconnected
\* changes nothing else of the session (the registry, the other fields of the
\* connection, the Participant list, the queues, the channel, the timers, the
\* pending handlers) and sends no event; and a connection leaves the registry
\* only in the handling of a leave event or in a teardown
C31_FailedConnectionChangesNothing ==
  [][\A s \in Sessions : \A id \in DOMAIN conns[s] :
       /\ (/\ id \in DOMAIN conns'[s]
           /\ conns'[s][id].state # conns[s][id].state
           /\ conns'[s][id].state \in {"failed", "disconnected"})
            => /\ conns'[s] = [conns[s] EXCEPT ![id].state = conns'[s][id].state]
               /\ peerConnections'[s] = peerConnections[s]
               /\ participants'[s] = participants[s]
               /\ iceCandidatesQueue'[s] = iceCandidatesQueue[s]
               /\ channel'[s] = channel[s]
               /\ timers'[s] = timers[s]
               /\ tasks'[s] = tasks[s]
               /\ reconnectAttempts'[s] = reconnectAttempts[s]
               /\ out' = {}
       /\ id \notin DOMAIN conns'[s]
            => (lastRecv'.event = "leave" \/ channel'[s] = NoChannel)
    ]_vars

\* the connection to a listed Participant has failed and is still registered
C31_Witness ==
  \E s \in mounted, p \in Users :
    /\ OpenConn(s, p)
    /\ conns[s][peerConnections[s][p]].state = "failed"
    /\ p \in participants[s]
    /\ channel[s].st = "subscribed"

\* C32: the step in which the room channel closes unexpectedly, and the step
\* in which the reconnect timeout it scheduled re-subscribes, change neither
\* the registry, the connections, the candidate queues, the Participant list
\* nor the local stream; the new channel's handlers hold the stream the closed
\* channel's handlers held, which is the session's local stream
C32_ReconnectKeepsConnections ==
  [][\A s \in Sessions :
       LET closes  == \E r \in Rooms : closedSinceSub'[s][r] = closedSinceSub[s][r] + 1
           rejoins == /\ \E tm \in timers[s] \ timers'[s] : tm.kind = "reconnect"
                      /\ channel'[s].st = "joining"
       IN /\ (closes \/ rejoins) =>
               /\ peerConnections'[s] = peerConnections[s]
               /\ conns'[s] = conns[s]
               /\ iceCandidatesQueue'[s] = iceCandidatesQueue[s]
               /\ participants'[s] = participants[s]
               /\ localStreamRef'[s] = localStreamRef[s]
               /\ streams'[s] = streams[s]
          /\ rejoins =>
               /\ channel'[s].stream = channel[s].stream
               /\ channel'[s].stream = localStreamRef[s]
               /\ channel'[s].stream # 0 /\ streams[s][channel'[s].stream]
    ]_vars

\* ------------------------------------------------- repeated joins of a room
MaxRejoins == 2   \* local streams a session acquires (repeated joins)

\* one session whose user invokes joinRoom() again, joined or still joining
NextRejoin ==
  \E s \in Sessions :
    \/ MayJoin(s, MaxRejoins) /\ \E r \in Rooms : handleJoin(s, r)
    \/ \E t \in DOMAIN tasks[s], suspended \in BOOLEAN : GotUserMedia(s, t, suspended)
    \/ \E t \in DOMAIN tasks[s] : UserMediaDenied(s, t)
    \/ \E t \in DOMAIN tasks[s] : AudioResumed(s, t)
    \/ ServerJoined(s)
    \/ Subscribed(s)
    \/ leaveRoom(s)

SpecRejoin == InitRoom /\ [][NextRejoin]_vars

\* C37: a leaveRoom (the step that releases the session's local stream) leaves
\* no track live that a handleJoin of the session acquired before it
C37_LeaveStopsAcquiredTracks ==
  [][\A s \in Sessions :
       (localStreamRef[s] # 0 /\ localStreamRef'[s] = 0) =>
          \A i \in DOMAIN streams'[s] : ~streams'[s][i]
    ]_vars

\* C33: whenever no call-signaling event is in flight and no continuation or
\* ref-syncing effect is pending, no party is connected while the other is idle
C33_PartiesAgreeAtRest ==
  (/\ InFlight = 0 /\ PendingCalls = 0
   /\ \A u \in CallUsers : ~ENABLED SyncRefs(u)) =>
     \A u \in CallUsers : ~(callState[u] = "connected" /\ callState[Other(u)] = "idle")

\* C34: callData is null exactly when callState is idle
C34_CallDataNullIffIdle ==
  \A u \in CallUsers : (callData[u] = NoCall) <=> (callState[u] = "idle")

\* C35: a step in which a party inserts a call-log row for its call finds no
\* row of that call inserted by the other party: the other party has no
\* cancelCall, declineCall or endCall of that call awaiting its insert, and no
\* cancel, reject or end event of that call, which is sent after the insert,
\* waits on a transient channel or travels
C35_OneLogRowPerCall ==
  [][\A u \in CallUsers :
       LET rid == callData[u].roomId
           closes(m) == /\ m.event \in {"reject", "cancel", "end"}
                        /\ m.sender = Other(u) /\ m.room_id = rid
       IN (logged' # NoLog /\ logged'.sender_id = u) =>
            /\ ~\E t \in DOMAIN callTasks[Other(u)] :
                  t.kind \in {"reject", "cancel", "end"} /\ t.data.roomId = rid
            /\ ~\E t \in DOMAIN callTasks[Other(u)] :
                  t.kind \in {"subscribe", "held"} /\ closes(t.data.msg)
            /\ ~\E m \in DOMAIN signals[u] : closes(m)
    ]_vars

\* C36: the ring interval runs only while callState is outgoing or incoming
C36_RingOnlyWhileRinging ==
  \A u \in CallUsers : ringIntervalRef[u] => callState[u] \in {"outgoing", "incoming"}

\* ---------------------------------------------------------------------------
\* the video call hooks of the two users
\* a further continuation of u may be pending, a further event may travel
VideoRoom(u) ==
  /\ BagCardinality(videoTasks[u]) < MaxVideoTasks
  /\ Len(broadcasts[Other(u)]) < MaxVideoEvents

NextVideo ==
  \E u \in CallUsers :
    \/ video[u].started < MaxVideoCalls /\ VideoRoom(u) /\ VideoStartCall(u)
    \/ VideoRoom(u) /\ VideoAcceptCall(u)
    \/ VideoRoom(u) /\ VideoRejectCall(u)
    \/ VideoRoom(u) /\ VideoEndCall(u)
    \/ \E t \in DOMAIN videoTasks[u], ok \in BOOLEAN : VideoMediaSettled(u, t, ok)
    \/ \E t \in DOMAIN videoTasks[u] : VideoWaited(u, t)
    \/ \E t \in DOMAIN videoTasks[u] : VideoOfferCreated(u, t)
    \/ \E t \in DOMAIN videoTasks[u] : VideoOfferTimeout(u, t)
    \/ VideoReceive(u)
    \/ \E t \in DOMAIN videoTasks[u] : VideoRemoteSet(u, t)
    \/ \E t \in DOMAIN videoTasks[u] : VideoAnswered(u, t)

SpecVideo == InitCall /\ [][NextVideo]_vars

\* C38: at most one of inCall, isCalling and isReceivingCall is true in a hook
C38_OneCallFlag ==
  \A u \in CallUsers :
    /\ ~(video[u].inCall /\ video[u].isCalling)
    /\ ~(video[u].inCall /\ video[u].isReceivingCall)
    /\ ~(video[u].isCalling /\ video[u].isReceivingCall)

\* C39: the only connection of a hook that can be open is the one in
\* peerConnection.current: a connection that was replaced is closed, and
\* after cleanup, which leaves the ref null, none is open
C39_OnlyCurrentConnectionOpen ==
  \A u \in CallUsers : video[u].open \subseteq {video[u].peerConnection}

\* the video call hooks with every due callback run: the promises settle, the
\* timeouts fire, the events in flight are delivered and handled; no user
\* action is ever forced
VideoProgress(u) ==
  \/ \E t \in DOMAIN videoTasks[u], ok \in BOOLEAN : VideoMediaSettled(u, t, ok)
  \/ \E t \in DOMAIN videoTasks[u] : VideoWaited(u, t)
  \/ \E t \in DOMAIN videoTasks[u] : VideoOfferCreated(u, t)
  \/ \E t \in DOMAIN videoTasks[u] : VideoOfferTimeout(u, t)
  \/ VideoReceive(u)
  \/ \E t \in DOMAIN videoTasks[u] : VideoRemoteSet(u, t)
  \/ \E t \in DOMAIN videoTasks[u] : VideoAnswered(u, t)

SpecVideoFair == InitCall /\ [][NextVideo]_vars /\ \A u \in CallUsers : WF_vars(VideoProgress(u))

\* C40: whenever a callee that started no call of its own is shown the call
\* of a caller still calling and holds the stream its acceptCall acquired,
\* both parties are eventually inCall, unless the caller stops calling or the
\* callee stops receiving
C40_AcceptedCallConnects ==
  \A u \in CallUsers :
    (/\ video[u].started = 0
     /\ video[u].isReceivingCall /\ video[u].callerId = Other(u)
     /\ video[u].localStreamRef /\ ~video[u].inCall
     /\ video[Other(u)].isCalling /\ ~video[Other(u)].inCall)
    ~> (\/ video[u].inCall /\ video[Other(u)].inCall
        \/ ~video[Other(u)].isCalling /\ ~video[Other(u)].inCall
        \/ ~video[u].isReceivingCall /\ ~video[u].inCall)

====
